---- MODULE Spec2Model ----
(***************************************************************************)
(* Model of todoist-snapshot (src/todoist-snapshot.js): one run of an      *)
(* entry routine (syncTodoist, or one of the three per-target sync         *)
(* routines) against a property store, the Todoist REST API and the        *)
(* Google document / Drive file sinks.                                      *)
(*                                                                         *)
(* Strings the code inspects character by character (property values) are *)
(* sequences of one-character strings.  An optional value (null/undefined  *)
(* in the code) is a sequence of length 0 or 1: None or Some(v).           *)
(* Log lines are written without the emoji the code prepends.              *)
(***************************************************************************)
EXTENDS Integers, Sequences, FiniteSets, TLC

None == <<>>
Some(v) == <<v>>
IsSome(o) == Len(o) = 1
Val(o) == o[1]

Range(s) == { s[i] : i \in 1..Len(s) }

\* Array.prototype.filter: the elements satisfying Keep, in their order.
RECURSIVE SelectIdx(_, _, _)
SelectIdx(s, Keep(_), i) ==
    IF i > Len(s) THEN <<>>
    ELSE (IF Keep(s[i]) THEN <<s[i]>> ELSE <<>>) \o SelectIdx(s, Keep, i + 1)

(***************************************************************************)
(* Bounds of the model.                                                    *)
(***************************************************************************)
\* longest task list the task-list endpoint answers with
MaxTasks == 2
\* longest list the children endpoint answers with
MaxChildren == 1

(***************************************************************************)
(* Character strings.                                                      *)
(***************************************************************************)
LowerLetters == {"a","b","c","d","e","f","g","h","i","j","k","l","m",
                 "n","o","p","q","r","s","t","u","v","w","x","y","z"}
UpperLetters == {"A","B","C","D","E","F","G","H","I","J","K","L","M",
                 "N","O","P","Q","R","S","T","U","V","W","X","Y","Z"}
Digits == {"0","1","2","3","4","5","6","7","8","9"}
Whitespace == {" ", "\t", "\n"}

\* case folding of the letters the /i patterns mention
ToLower(c) ==
    CASE c = "H" -> "h" [] c = "T" -> "t" [] c = "P" -> "p" [] c = "S" -> "s"
      [] c = "F" -> "f" [] c = "O" -> "o" [] c = "L" -> "l" [] c = "D" -> "d"
      [] c = "E" -> "e" [] c = "R" -> "r" [] OTHER -> c

\* String.prototype.trim
RECURSIVE TrimStart(_)
TrimStart(s) ==
    IF s # <<>> /\ Head(s) \in Whitespace THEN TrimStart(Tail(s)) ELSE s
RECURSIVE TrimEnd(_)
TrimEnd(s) ==
    IF s # <<>> /\ s[Len(s)] \in Whitespace
    THEN TrimEnd(SubSeq(s, 1, Len(s) - 1)) ELSE s
Trim(s) == TrimEnd(TrimStart(s))

\* s has the literal lit at position p; fold = case-insensitive (/i)
HasAt(s, p, lit, fold) ==
    /\ p >= 1
    /\ p + Len(lit) - 1 <= Len(s)
    /\ \A k \in 1..Len(lit) :
          IF fold THEN ToLower(s[p + k - 1]) = lit[k] ELSE s[p + k - 1] = lit[k]

(***************************************************************************)
(* Configuration resolver.                                                 *)
(***************************************************************************)
\* shortest identifier the URL patterns accept: the {10,} quantifier
MinIdLen == 10

IdChar(c) == c \in LowerLetters \cup UpperLetters \cup Digits \cup {"_", "-"}
\* \w of the regular-expression engine
WordChar(c) == c \in LowerLetters \cup UpperLetters \cup Digits \cup {"_"}

\* length of the run of identifier characters that starts at position p
RECURSIVE RunLen(_, _)
RunLen(s, p) ==
    IF p <= Len(s) /\ IdChar(s[p]) THEN 1 + RunLen(s, p + 1) ELSE 0

\* \b right after position e
WordBoundaryAfter(s, e) ==
    WordChar(s[e]) # (e + 1 <= Len(s) /\ WordChar(s[e + 1]))

\* ([a-zA-Z0-9_-]{10,})\b at p: the greedy quantifier backs off to the
\* longest run of at least MinIdLen characters that ends at a word boundary
CaptureBoundary(s, p) ==
    LET ok == { n \in MinIdLen..RunLen(s, p) : WordBoundaryAfter(s, p + n - 1) }
    IN  IF ok = {} THEN 0 ELSE CHOOSE n \in ok : \A m \in ok : m <= n

\* ([a-zA-Z0-9_-]{10,}) at p, no boundary required
CaptureGreedy(s, p) ==
    IF RunLen(s, p) >= MinIdLen THEN RunLen(s, p) ELSE 0

\* String.prototype.match without /g: the capture of the leftmost match of
\* <one of the prefixes> followed by the capture group, or None
MatchId(s, prefixes, Capture(_, _)) ==
    LET hits == { q \in 1..Len(s) :
                    \E lit \in prefixes :
                        HasAt(s, q, lit, FALSE) /\ Capture(s, q + Len(lit)) > 0 }
    IN  IF hits = {} THEN None
        ELSE LET q == CHOOSE h \in hits : \A g \in hits : h <= g
                 lit == CHOOSE l \in prefixes :
                            HasAt(s, q, l, FALSE) /\ Capture(s, q + Len(l)) > 0
                 st == q + Len(lit)
             IN  Some(SubSeq(s, st, st + Capture(s, st) - 1))

\* a result of a call that either returns a value or throws
Return(v) == [ok |-> TRUE, value |-> Some(v), message |-> ""]
Throw(m) == [ok |-> FALSE, value |-> None, message |-> m]

\* /\/folders\//i.test(s)
HasFolderSegment(s) ==
    \E q \in 1..Len(s) : HasAt(s, q, <<"/","f","o","l","d","e","r","s","/">>, TRUE)

\* /^https?:\/\//i.test(s)
IsHttpUrl(s) ==
    \/ HasAt(s, 1, <<"h","t","t","p",":","/","/">>, TRUE)
    \/ HasAt(s, 1, <<"h","t","t","p","s",":","/","/">>, TRUE)

\* slip: the id= parameter is tried before the path segments
extractDriveIdFromInput_queryFirst(input) ==
    LET trimmed == Trim(IF IsSome(input) THEN Val(input) ELSE <<>>)
        m1 == MatchId(trimmed, {<<"/","d","/">>, <<"/","u","/">>}, CaptureBoundary)
        m2 == MatchId(trimmed, {<<"/","f","i","l","e","/","d","/">>}, CaptureBoundary)
        m3 == MatchId(trimmed, {<<"?","i","d","=">>, <<"&","i","d","=">>}, CaptureGreedy)
    IN  IF trimmed = <<>> THEN Throw("Empty ID/URL provided.")
        ELSE IF ~IsHttpUrl(trimmed) THEN Return(trimmed)
        ELSE IF HasFolderSegment(trimmed)
             THEN Throw("The provided link appears to be a folder. Please provide a file or document link.")
        ELSE IF IsSome(m3) THEN Return(Val(m3))
        ELSE IF IsSome(m1) THEN Return(Val(m1))
        ELSE IF IsSome(m2) THEN Return(Val(m2))
        ELSE Throw("Unable to extract a file ID from the provided URL. Provide a direct file/document link.")

\* input: null or a string
extractDriveIdFromInput(input) ==
    LET trimmed == Trim(IF IsSome(input) THEN Val(input) ELSE <<>>)
        m1 == MatchId(trimmed, {<<"/","d","/">>, <<"/","u","/">>}, CaptureBoundary)
        m2 == MatchId(trimmed, {<<"/","f","i","l","e","/","d","/">>}, CaptureBoundary)
        m3 == MatchId(trimmed, {<<"?","i","d","=">>, <<"&","i","d","=">>}, CaptureGreedy)
    IN  IF trimmed = <<>> THEN Throw("Empty ID/URL provided.")
        ELSE IF ~IsHttpUrl(trimmed) THEN Return(trimmed)
        ELSE IF HasFolderSegment(trimmed)
             THEN Throw("The provided link appears to be a folder. Please provide a file or document link.")
        ELSE IF IsSome(m1) THEN Return(Val(m1))
        ELSE IF IsSome(m2) THEN Return(Val(m2))
        ELSE IF IsSome(m3) THEN Return(Val(m3))
        ELSE Throw("Unable to extract a file ID from the provided URL. Provide a direct file/document link.")

\* !value of a property: null and the empty string are falsy
Falsy(v) == ~IsSome(v) \/ Val(v) = <<>>

\* slip: only a missing token is rejected, an empty one is used
getTodoistToken_notNull(properties) ==
    IF ~IsSome(properties.TODOIST_TOKEN)
    THEN Throw("TODOIST_TOKEN is not configured. Set it in Project settings -> Script properties.")
    ELSE Return(Val(properties.TODOIST_TOKEN))

getTodoistToken(properties) ==
    IF Falsy(properties.TODOIST_TOKEN)
    THEN Throw("TODOIST_TOKEN is not configured. Set it in Project settings -> Script properties.")
    ELSE Return(Val(properties.TODOIST_TOKEN))

getDocId(properties) ==
    IF Falsy(properties.DOC_ID)
    THEN Throw("DOC_ID is not configured. Set a Google Doc sharing URL in Script properties, or configure TEXT_FILE_ID instead.")
    ELSE extractDriveIdFromInput(properties.DOC_ID)

getTextFileId(properties) ==
    IF Falsy(properties.TEXT_FILE_ID)
    THEN Throw("TEXT_FILE_ID is not configured. Set a Drive file sharing URL in Script properties, or configure DOC_ID instead.")
    ELSE extractDriveIdFromInput(properties.TEXT_FILE_ID)

getJsonFileId(properties) ==
    IF Falsy(properties.JSON_FILE_ID)
    THEN Throw("JSON_FILE_ID is not configured. Set a Drive file sharing URL in Script properties.")
    ELSE extractDriveIdFromInput(properties.JSON_FILE_ID)

DefaultTimezone == <<"A","m","e","r","i","c","a","/","C","h","i","c","a","g","o">>

getTimezone(properties) ==
    IF Falsy(properties.TIMEZONE) THEN DefaultTimezone ELSE Val(properties.TIMEZONE)

\* the time zones of the runs, and the offset of their local time from UTC
\* in milliseconds (standard time)
Paris == <<"E","u","r","o","p","e","/","P","a","r","i","s">>
UTC == <<"U","T","C">>
ZoneOffset(zone) ==
    CASE zone = DefaultTimezone -> -21600000
      [] zone = Paris -> 3600000
      [] OTHER -> 0

isDebugEnabled(properties) == properties.DEBUG = Some(<<"t","r","u","e">>)

(***************************************************************************)
(* Tasks, projects and the answers of the Todoist REST API.                *)
(***************************************************************************)
\* 24 * 60 * 60 * 1000
DayMs == 86400000
\* 7 * 24 * 60 * 60 * 1000, the retention window of getTodoistData
SevenDaysMs == 604800000

Task(id, parent, project, due, priority, labels, comments) ==
    [id |-> id, content |-> id, description |-> "", due |-> due,
     priority |-> priority, labels |-> labels, project_id |-> project,
     parent_id |-> parent, created_at |-> None, comment_count |-> comments,
     subtasks |-> None]

DueDate(day) == Some([date |-> Some(day), datetime |-> None])
DueDateTime(day, instant) == Some([date |-> Some(day), datetime |-> Some(instant)])

\* the instant at which the run starts: day 2, 12:00
Now == 2 * DayMs + 43200000

\* the tasks the account may hold, in the order the endpoint lists them:
\*   t3 no due value                      t1 date only, overdue
\*   t4 one millisecond past the window   t5 date and time, overdue
\*   t6 a due value with neither field    t2 exactly at the end of the window
\*   c1 a child of t1 with a due date of its own
TaskOrder ==
    << Task("t3", None, Some("p1"), None, 1, <<>>, 0),
       Task("t1", None, Some("p1"), DueDate(1), 4, <<"work">>, 0),
       Task("t4", None, Some("p2"), DueDateTime(9, Now + SevenDaysMs + 1), 2, <<>>, 0),
       [Task("t5", None, Some("p2"), DueDateTime(1, DayMs + 3600000), 3, <<>>, 0)
           EXCEPT !.description = "note"],
       Task("t6", None, None, Some([date |-> None, datetime |-> None]), 4, <<>>, 0),
       Task("t2", None, None, DueDateTime(9, Now + SevenDaysMs), 1, <<>>, 2),
       Task("c1", Some("t1"), Some("p1"), DueDate(3), 2, <<>>, 0) >>
TaskPool == Range(TaskOrder)

\* the tasks the children endpoint may answer with
ChildOrder ==
    << Task("c1", Some("t1"), Some("p1"), DueDate(3), 2, <<>>, 0),
       Task("c2", Some("t2"), None, None, 4, <<"home">>, 1) >>
ChildPool == Range(ChildOrder)

Project(id, name) == [id |-> id, name |-> name]

ProjectLists ==
    { <<>>,
      <<Project("p2", <<"H","o","m","e">>), Project("p1", <<"W","o","r","k">>)>> }

\* the sequences of at most n elements of S
RECURSIVE SeqsUpTo(_, _)
SeqsUpTo(S, n) ==
    IF n = 0 THEN { <<>> }
    ELSE LET shorter == SeqsUpTo(S, n - 1)
         IN  shorter \cup { Append(q, x) : q \in shorter, x \in S }

\* the endpoint lists tasks in their stored order (the order of TaskOrder)
TaskPosition(task) == CHOOSE i \in DOMAIN TaskOrder : TaskOrder[i] = task
TaskLists ==
    { q \in SeqsUpTo(TaskPool, MaxTasks) :
        \A i \in 1..(Len(q) - 1) : TaskPosition(q[i]) < TaskPosition(q[i + 1]) }
\* the endpoint lists tasks in their stored order (the order of ChildOrder)
ChildPosition(task) == CHOOSE i \in DOMAIN ChildOrder : ChildOrder[i] = task
InStoredOrder(q) ==
    \A i \in 1..(Len(q) - 1) : ChildPosition(q[i]) < ChildPosition(q[i + 1])
ChildLists == { q \in SeqsUpTo(ChildPool, MaxChildren) : InStoredOrder(q) }

\* The text of a response body, by what the code looks at: leading
\* whitespace (ws), the kind of text, and the value it parses to.
\*   array  : JSON text of an array of items
\*   object : JSON text of an object (an error document)
\*   cut    : text that starts with '[' and is not valid JSON
\*   text   : any other text (an HTML error page)
Body(shape, ws, items) == [shape |-> shape, ws |-> ws, items |-> items]

\* UrlFetchApp.fetch with muteHttpExceptions: the call throws (network
\* error), or returns a response with a status code and a body
Response(throws, code, body) == [throws |-> throws, code |-> code, body |-> body]

\* the answers that are not a list: a network error, an error status, and
\* status 200 with a body that is not a JSON array
FailedResponses ==
    { Response(TRUE, 0, Body("text", FALSE, <<>>)),
      Response(FALSE, 401, Body("object", FALSE, <<>>)) }
      \cup { Response(FALSE, 200, Body(sh, FALSE, <<>>)) : sh \in {"text", "cut", "object"} }

TaskListResponses ==
    FailedResponses
      \cup { Response(FALSE, 200, Body("array", FALSE, q)) : q \in TaskLists }
      \cup { Response(FALSE, 200, Body("array", TRUE, <<>>)) }

ChildrenResponses ==
    FailedResponses
      \cup { Response(FALSE, 401, Body("array", FALSE, q)) : q \in { c \in ChildLists : Len(c) = MaxChildren } }
      \cup { Response(FALSE, 200, Body("array", FALSE, q)) : q \in ChildLists }
      \cup { Response(FALSE, 200, Body("array", TRUE, q)) : q \in { c \in ChildLists : Len(c) = MaxChildren } }

ProjectResponses ==
    FailedResponses
      \cup { Response(FALSE, 200, Body("array", FALSE, q)) : q \in ProjectLists }

\* content.trim().startsWith('[') || content.trim().startsWith('{')
LooksLikeJson(body) == body.shape \in {"array", "object", "cut"}

\* an exception: e.toString() is name + ': ' + message; status and body
\* are the values the message of an API error carries
Error(name, message, status, body) ==
    [name |-> name, message |-> message, status |-> status, body |-> body]

(***************************************************************************)
(* The property store, the documents and the Drive files of the run.       *)
(***************************************************************************)
Token == <<"t","o","k">>
DocId == <<"d","o","c","1","2","3">>
DocUrl == <<"h","t","t","p","s",":","/","/","g",".","c","o","/","d","/","d","o","c","1","2","3","4","5","6","7","/","e","d","i","t">>
FolderUrl == <<"h","t","t","p","s",":","/","/","g",".","c","o","/","f","o","l","d","e","r","s","/","a","b","c","d","e","f","g","h","i","j">>
TextFileId == <<"f","i","l","e","1","2","3">>
MissingFileId == <<"n","o","f","i","l","e">>
JsonFileId == <<"j","s","o","n","1","2","3">>
JsonUrl == <<"h","t","t","p","s",":","/","/","g",".","c","o","/","o","p","e","n","?","i","d","=","j","s","o","n","1","2","3","4","5","6","7">>
True == <<"t","r","u","e">>

\* the documents DocumentApp.openById finds, the files DriveApp.getFileById finds
DocIds == { DocId, <<"d","o","c","1","2","3","4","5","6","7">> }
FileIds == { TextFileId, JsonFileId, <<"j","s","o","n","1","2","3","4","5","6","7">> }

Store(token, doc, text, json, debug) ==
    [TODOIST_TOKEN |-> token, DOC_ID |-> doc, TEXT_FILE_ID |-> text,
     JSON_FILE_ID |-> json, TIMEZONE |-> None, DEBUG |-> debug]

\* the keys unset or set to their plain values: without a token every
\* choice of targets, with a token one target, two targets or all three
PlainStores ==
    { Store(None, doc, text, json, None) :
        doc \in { None, Some(DocId) }, text \in { None, Some(TextFileId) },
        json \in { None, Some(JsonFileId) } }
      \cup { Store(Some(Token), None, None, None, None),
              Store(Some(Token), Some(DocId), None, None, None),
              Store(Some(Token), None, Some(TextFileId), None, None),
              Store(Some(Token), None, None, Some(JsonFileId), None),
              Store(Some(Token), None, Some(TextFileId), Some(JsonFileId), None),
              Store(Some(Token), Some(DocId), Some(TextFileId), Some(JsonFileId), None) }

FullStore == Store(Some(Token), Some(DocId), Some(TextFileId), Some(JsonFileId), None)

\* TIMEZONE set, with the document as the only target
TimezoneStore == [Store(Some(Token), Some(DocId), None, None, None) EXCEPT !.TIMEZONE = Some(Paris)]

\* stores with one key set to an unusual value: an empty token, a sharing
\* URL, a folder URL, a blank string, the identifier of no file, the debug
\* flag, the time zone
EdgeStores ==
    { [FullStore EXCEPT !.TODOIST_TOKEN = Some(<<>>)],
      Store(Some(Token), Some(DocUrl), None, None, None),
      Store(Some(Token), Some(FolderUrl), None, None, None),
      Store(Some(Token), None, Some(<<" ">>), None, None),
      Store(Some(Token), None, Some(MissingFileId), None, None),
      Store(Some(Token), None, None, Some(JsonUrl), None),
      Store(Some(Token), Some(DocId), Some(TextFileId), None, Some(True)),
      TimezoneStore }

\* every output target set to the empty string
EmptyTargetsStore == Store(Some(Token), Some(<<>>), Some(<<>>), Some(<<>>), None)

PropertyStores == PlainStores \cup EdgeStores \cup { EmptyTargetsStore }

\* the script properties of a run and the time zone of its script project:
\* every store in the default zone, and the stores of one text target or
\* one document target in a zone ahead of UTC
Environments ==
    { <<s, DefaultTimezone>> : s \in PropertyStores }
      \cup { <<s, Paris>> : s \in { Store(Some(Token), None, Some(TextFileId), None, None),
                                     TimezoneStore } }

\* a JavaScript value that is an array, null/undefined, or another object
Arr(q) == [t |-> "array", v |-> q]
Null == [t |-> "null", v |-> <<>>]
Obj == [t |-> "object", v |-> <<>>]

Bundle(tasks, rawTasks, projects) ==
    [tasks |-> tasks, rawTasks |-> rawTasks, projects |-> projects]

VARIABLES
    props,          \* the script properties
    scriptZone,     \* the time zone of the script project
    clock,          \* the instant new Date() returns
    renderings,     \* the outputs rendered so far from one bundle, with their instant
    resolved,       \* what each target-ID getter called on its own gave
    pc,             \* where the run is
    entry,          \* the routine the run was started with
    caller,         \* the routine that called getTodoistData
    data,           \* the bundle the sync routines are called with, if any
    todoistData,    \* the bundle the running sync routine works on
    filteredTasks,  \* the retained task objects (mutated in place)
    idx,            \* loop index of fetchTasksWithSubtasks
    http,           \* the HTTP requests issued
    lastResponse,   \* the response to the latest of them
    log,            \* the lines written to Logger
    error,          \* the exception that escaped the entry routine, if any
    calls,          \* the sync routines invoked, with their argument
    seen,           \* the tasks and projects each writer was given
    docs,           \* content of each document
    files,          \* content of each Drive file
    sinkOps,        \* the calls made on DocumentApp / DriveApp resources
    fullText,       \* formatListItem: the text of the item before the Markdown passes
    textElement     \* formatListItem: the characters of the item and their attributes

vars == <<props, scriptZone, clock, renderings, resolved, pc, entry, caller, data, todoistData, filteredTasks, idx,
          http, lastResponse, log, error, calls, seen, docs, files, sinkOps,
          fullText, textElement>>

Line(text, detail) == [text |-> text, detail |-> detail]

\* what the documents and files hold before the run
OldDoc == <<Line("old document", <<>>)>>
OldFile == <<Line("old file", <<>>)>>

Init ==
    /\ \E e \in Environments : props = e[1] /\ scriptZone = e[2]
    /\ clock = Now
    /\ renderings = <<>>
    /\ resolved = <<>>
    /\ pc = "Idle"
    /\ entry = "none"
    /\ caller = "none"
    /\ data = None
    /\ todoistData = None
    /\ filteredTasks = <<>>
    /\ idx = 0
    /\ http = <<>>
    /\ lastResponse = None
    /\ log = <<>>
    /\ error = None
    /\ calls = <<>>
    /\ seen = <<>>
    /\ docs = [d \in DocIds |-> OldDoc]
    /\ files = [f \in FileIds |-> OldFile]
    /\ sinkOps = <<>>
    /\ fullText = <<>>
    /\ textElement = <<>>

(***************************************************************************)
(* syncTodoist: target detection and dispatch.                             *)
(***************************************************************************)
\* slip: a DOC_ID set to the empty string counts as configured
hasDoc_notNull == IsSome(props.DOC_ID)

hasDoc == ~Falsy(props.DOC_ID)
hasText == ~Falsy(props.TEXT_FILE_ID)
hasJson == ~Falsy(props.JSON_FILE_ID)

\* [hasDoc, hasText, hasJson].filter(Boolean).length
targetCount ==
    (IF hasDoc THEN 1 ELSE 0) + (IF hasText THEN 1 ELSE 0) + (IF hasJson THEN 1 ELSE 0)

\* slip: the targets are tried as an if / else-if chain
NextTarget_elseIf(from) ==
    IF from = "start" /\ hasDoc THEN "doc"
    ELSE IF from = "start" /\ hasText THEN "text"
    ELSE IF from = "start" /\ hasJson THEN "json"
    ELSE "completed"

\* the statement syncTodoist executes next, after the sync routine `from`
\* returned: "if (hasDoc) ...; if (hasText) ...; if (hasJson) ..." and then
\* the final log line
NextTarget(from) ==
    IF from = "start" /\ hasDoc THEN "doc"
    ELSE IF from \in {"start", "doc"} /\ hasText THEN "text"
    ELSE IF from \in {"start", "doc", "text"} /\ hasJson THEN "json"
    ELSE "completed"

\* the position of sync routine r after "preFetchedData || getTodoistData()"
WritePc(r) ==
    CASE r = "doc" -> "writeTasksToDoc"
      [] r = "text" -> "writeTasksToTextFile"
      [] r = "json" -> "writeTasksToJsonFile"

\* where control goes when sync routine r returns: to the next configured
\* target, or through the last statement of syncTodoist to the end of the run
AfterRoutine(r) ==
    IF entry = "syncTodoist" /\ NextTarget(r) # "completed" THEN NextTarget(r) ELSE "Done"

\* the last statement of syncTodoist, reached when routine r was the last
ReturnLog(r) ==
    IF entry = "syncTodoist" /\ NextTarget(r) = "completed"
    THEN <<Line("Todoist sync completed successfully", <<>>)>>
    ELSE <<>>

syncTodoist ==
    /\ pc = "Idle"
    /\ entry' = "syncTodoist"
    /\ IF ~hasDoc /\ ~hasText /\ ~hasJson
       THEN /\ pc' = "Raised"
            /\ error' = Some(Error("Error", "No output targets configured. Set DOC_ID, TEXT_FILE_ID, and/or JSON_FILE_ID in Script properties.", None, None))
            /\ UNCHANGED <<log, caller>>
       ELSE /\ log' = <<Line("Starting Todoist sync...", <<>>)>>
                       \o (IF isDebugEnabled(props)
                           THEN <<Line("Targets:", <<hasDoc, hasText, hasJson>>)>>
                           ELSE <<>>)
            /\ IF targetCount > 1
               THEN pc' = "getTodoistData" /\ caller' = "syncTodoist"
               ELSE pc' = NextTarget("start") /\ caller' = caller
            /\ error' = error
    /\ UNCHANGED <<props, scriptZone, clock, renderings, resolved, fullText, textElement, data, todoistData, filteredTasks, idx, http, lastResponse, calls,
                   seen, docs, files, sinkOps>>

(***************************************************************************)
(* The catch blocks of the three sync routines.                            *)
(***************************************************************************)
FailurePrefix(r) ==
    CASE r = "doc" -> "Failed to sync tasks to Google Doc: "
      [] r = "text" -> "Failed to sync tasks to text file: "
      [] r = "json" -> "Failed to sync tasks to JSON file: "

SuccessText(r) ==
    CASE r = "doc" -> "Successfully synced tasks to Google Doc"
      [] r = "text" -> "Successfully synced tasks to text file"
      [] r = "json" -> "Successfully synced tasks to JSON file"

\* catch (e) { Logger.log(prefix + e.toString()); if (isDebugEnabled()) Logger.log(e.stack); }
CatchLog(r, e) ==
    <<Line(FailurePrefix(r), <<e>>)>>
      \o (IF isDebugEnabled(props) THEN <<Line("e.stack", <<e>>)>> ELSE <<>>)

(***************************************************************************)
(* getTodoistData and fetchTasksWithSubtasks.                              *)
(***************************************************************************)
Request(url, parent) == [url |-> url, parent |-> parent]

\* new Date(y, m - 1, d): midnight of day number day in the time zone of
\* the script
LocalMidnight(day) == day * DayMs - ZoneOffset(scriptZone)

\* slip: the end of the window is excluded
Retained_strict(task) ==
    IF ~IsSome(task.due) THEN FALSE
    ELSE LET due == Val(task.due)
         IN  IF IsSome(due.datetime) THEN Val(due.datetime) < clock + SevenDaysMs
             ELSE IF IsSome(due.date) THEN LocalMidnight(Val(due.date)) < clock + SevenDaysMs
             ELSE FALSE

\* the predicate of rawTasks.filter in getTodoistData; now = new Date() and
\* sevenDaysFromNow = now + 7 days
Retained(task) ==
    IF ~IsSome(task.due) THEN FALSE
    ELSE LET due == Val(task.due)
         IN  IF IsSome(due.datetime) THEN Val(due.datetime) <= clock + SevenDaysMs
             ELSE IF IsSome(due.date) THEN LocalMidnight(Val(due.date)) <= clock + SevenDaysMs
             ELSE FALSE

FilterTasks(rawTasks) == SelectIdx(rawTasks, Retained, 1)

\* catch (error) of getTodoistData: a parse error whose message names
\* JSON.parse (which depends on the script engine: rewrap) is thrown again
\* with context, any other error as it is
Rethrow(e, rewrap) ==
    IF e.name = "SyntaxError" /\ rewrap
    THEN Error("Error", "JSON parsing error in Todoist API response. This usually indicates an invalid API token or API rate limiting.", None, None)
    ELSE e

\* slip: the status code is not looked at
ValidateResponse_noStatus(r, what) ==
    IF r.throws THEN Some(Error("Error", "network error", None, None))
    ELSE IF ~LooksLikeJson(r.body)
    THEN Some(Error("Error", "Invalid JSON response from Todoist " \o what \o " API.", None, Some(r.body)))
    ELSE IF r.body.shape = "cut"
    THEN Some(Error("SyntaxError", "Unexpected end of JSON input", None, None))
    ELSE None

\* status and shape validation of a response; what names the endpoint
ValidateResponse(r, what) ==
    IF r.throws THEN Some(Error("Error", "network error", None, None))
    ELSE IF r.code # 200
    THEN Some(Error("Error", "Failed to fetch " \o what \o " from Todoist API.", Some(r.code), Some(r.body)))
    ELSE IF ~LooksLikeJson(r.body)
    THEN Some(Error("Error", "Invalid JSON response from Todoist " \o what \o " API.", None, Some(r.body)))
    ELSE IF r.body.shape = "cut"
    THEN Some(Error("SyntaxError", "Unexpected end of JSON input", None, None))
    ELSE None

\* slip: no sync routine wraps its fetch in try/catch
GetTodoistDataThrows_uncaught(e, lg) ==
    /\ pc' = "Raised"
    /\ error' = Some(e)
    /\ log' = lg

\* the exception getTodoistData hands to its caller: syncTodoist lets it
\* escape, a sync routine catches and logs it and returns
GetTodoistDataThrows(e, lg) ==
    IF caller = "syncTodoist"
    THEN /\ pc' = "Raised"
         /\ error' = Some(e)
         /\ log' = lg
    ELSE /\ pc' = AfterRoutine(caller)
         /\ error' = error
         /\ log' = lg \o CatchLog(caller, e) \o ReturnLog(caller)

\* lines 193-253: token, task-list request, validation, retention filter
getTodoistData ==
    /\ pc = "getTodoistData"
    /\ LET token == getTodoistToken(props)
           lg0 == log \o <<Line("DEBUG: getTodoistData() started", <<>>),
                           Line("DEBUG: Getting Todoist token...", <<>>)>>
           lg1 == lg0 \o <<Line("DEBUG: Token retrieved successfully", <<>>),
                           Line("DEBUG: Request parameters set up", <<>>),
                           Line("DEBUG: Calling tasks URL: ", <<>>)>>
       IN  IF ~token.ok
           THEN /\ GetTodoistDataThrows(Error("Error", token.message, None, None), lg0)
                /\ UNCHANGED <<http, lastResponse, filteredTasks, idx>>
           ELSE \E r \in TaskListResponses, rewrap \in BOOLEAN :
                  LET bad == ValidateResponse(r, "tasks")
                  IN  /\ http' = Append(http, Request("tasks", ""))
                      /\ lastResponse' = Some(r)
                      /\ IF IsSome(bad)
                         THEN /\ GetTodoistDataThrows(Rethrow(Val(bad), rewrap), lg1)
                              /\ UNCHANGED <<filteredTasks, idx>>
                         ELSE IF r.body.shape = "object"
                         THEN \* rawTasks.filter is not a function
                              /\ GetTodoistDataThrows(
                                    Error("TypeError", "rawTasks.filter is not a function", None, None),
                                    lg1 \o <<Line("DEBUG: Total tasks fetched: ", <<>>)>>)
                              /\ UNCHANGED <<filteredTasks, idx>>
                         ELSE LET filtered == FilterTasks(r.body.items)
                              IN  /\ filteredTasks' = filtered
                                  /\ idx' = 1
                                  /\ log' = lg1 \o <<Line("DEBUG: Total tasks fetched: ", <<>>),
                                                     Line("DEBUG: Filtered to ", <<Len(filtered)>>)>>
                                         \o (IF isDebugEnabled(props)
                                             THEN <<Line("=== FETCH SUBTASKS DEBUG ===", <<Len(filtered)>>)>>
                                             ELSE <<>>)
                                  /\ pc' = "fetchTasksWithSubtasks"
                                  /\ error' = error
    /\ UNCHANGED <<props, scriptZone, clock, renderings, resolved, fullText, textElement, entry, caller, data, todoistData, calls, seen, docs, files, sinkOps>>

\* slip: the body is parsed whatever the status code is
SubtasksFrom_anyStatus(r) ==
    IF r.throws \/ ~LooksLikeJson(r.body) THEN <<>>
    ELSE IF r.body.shape = "array" /\ Len(r.body.items) > 0 THEN r.body.items
    ELSE <<>>

\* the value JSON.parse(subTaskContent) puts on the task, or [] when the
\* request throws, the status is not 200, the text is not JSON, or the
\* parsed value has no positive length
SubtasksFrom(r) ==
    IF IsSome(ValidateResponse(r, "sub-tasks")) THEN <<>>
    ELSE IF r.body.shape = "array" /\ Len(r.body.items) > 0 THEN r.body.items
    ELSE <<>>

\* one iteration of the loop of fetchTasksWithSubtasks (lines 301-344), or
\* its return when the loop is over (346-349)
fetchTasksWithSubtasks ==
    /\ pc = "fetchTasksWithSubtasks"
    /\ IF idx <= Len(filteredTasks)
       THEN \E r \in ChildrenResponses :
              LET task == filteredTasks[idx]
                  failed == IsSome(ValidateResponse(r, "sub-tasks"))
              IN  /\ http' = Append(http, Request("children", task.id))
                  /\ lastResponse' = Some(r)
                  /\ filteredTasks' = [filteredTasks EXCEPT ![idx].subtasks = Some(SubtasksFrom(r))]
                  /\ idx' = idx + 1
                  /\ log' = log \o (IF isDebugEnabled(props)
                                    THEN <<Line("Processing task ", <<idx>>),
                                           Line("DEBUG: Calling subtasks URL: ", <<task.id>>),
                                           Line(IF failed THEN "Error fetching sub-tasks for task "
                                                ELSE "sub-tasks for task", <<task.id>>)>>
                                    ELSE <<>>)
                  /\ pc' = pc
       ELSE /\ log' = log \o (IF isDebugEnabled(props)
                              THEN <<Line("Final result: ", <<idx - 1>>)>> ELSE <<>>)
            /\ pc' = "fetchProjects"
            /\ UNCHANGED <<http, lastResponse, filteredTasks, idx>>
    /\ UNCHANGED <<props, scriptZone, clock, renderings, resolved, fullText, textElement, entry, caller, data, todoistData, error, calls, seen, docs, files, sinkOps>>

\* lines 256-276: project-list request, validation, the returned bundle
fetchProjects ==
    /\ pc = "fetchProjects"
    /\ \E r \in ProjectResponses, rewrap \in BOOLEAN :
         LET bad == ValidateResponse(r, "projects")
             lg == log \o <<Line("DEBUG: Calling projects URL: ", <<>>)>>
             \* result of fetchTasksWithSubtasks: the objects pushed so far
             sortedTasks == SubSeq(filteredTasks, 1, idx - 1)
             projects == IF r.body.shape = "array" THEN Arr(r.body.items) ELSE Obj
             bundle == Bundle(Arr(sortedTasks), Arr(filteredTasks), projects)
         IN  /\ http' = Append(http, Request("projects", ""))
             /\ lastResponse' = Some(r)
             /\ IF IsSome(bad)
                THEN /\ GetTodoistDataThrows(Rethrow(Val(bad), rewrap), lg)
                     /\ UNCHANGED <<data, todoistData>>
                ELSE /\ log' = lg
                     /\ error' = error
                     /\ IF caller = "syncTodoist"
                        THEN /\ data' = Some(bundle)
                             /\ todoistData' = todoistData
                             /\ pc' = NextTarget("start")
                        ELSE /\ todoistData' = Some(bundle)
                             /\ data' = data
                             /\ pc' = WritePc(caller)
    /\ UNCHANGED <<props, scriptZone, clock, renderings, resolved, fullText, textElement, entry, caller, filteredTasks, idx, calls, seen, docs, files, sinkOps>>

(***************************************************************************)
(* Grouping and sorting shared by the document and the plain-text mode.    *)
(***************************************************************************)
Ok(v) == [ok |-> TRUE, value |-> Some(v), err |-> None]
Fail(e) == [ok |-> FALSE, value |-> None, err |-> Some(e)]
TypeError(m) == Error("TypeError", m, None, None)

RECURSIVE CountIdx(_, _, _)
CountIdx(q, P(_), i) ==
    IF i > Len(q) THEN 0 ELSE (IF P(q[i]) THEN 1 ELSE 0) + CountIdx(q, P, i + 1)
Count(q, P(_)) == CountIdx(q, P, 1)

HasLabels(task) == Len(task.labels) > 0
HasComments(task) == task.comment_count > 0
HasSubtasks(task) == IsSome(task.subtasks) /\ Len(Val(task.subtasks)) > 0

RECURSIVE SubtaskTotal(_, _)
SubtaskTotal(q, i) ==
    IF i > Len(q) THEN 0
    ELSE (IF HasSubtasks(q[i]) THEN Len(Val(q[i].subtasks)) ELSE 0) + SubtaskTotal(q, i + 1)

\* task.project_id || 'inbox'
ProjectKey(task) == IF IsSome(task.project_id) THEN Val(task.project_id) ELSE "inbox"

\* Object.keys(tasksByProject): the keys in the order of their first task
RECURSIVE ObjectKeys(_, _)
ObjectKeys(tasks, i) ==
    IF i > Len(tasks) THEN <<>>
    ELSE LET rest == ObjectKeys(tasks, i + 1)
             k == ProjectKey(tasks[i])
         IN  <<k>> \o SelectSeq(rest, LAMBDA x : x # k)

\* tasksByProject[key]
TasksOfProject(tasks, key) == SelectSeq(tasks, LAMBDA t : ProjectKey(t) = key)

\* projectMap.get(id): the name of the last project with that id, or undefined
ProjectName(projects, id) ==
    LET hits == { i \in 1..Len(projects) : projects[i].id = id }
    IN  IF hits = {} THEN None
        ELSE Some(projects[CHOOSE i \in hits : \A j \in hits : j <= i].name)

LetterRank(c) ==
    LET lower == <<"a","b","c","d","e","f","g","h","i","j","k","l","m",
                   "n","o","p","q","r","s","t","u","v","w","x","y","z">>
        upper == <<"A","B","C","D","E","F","G","H","I","J","K","L","M",
                   "N","O","P","Q","R","S","T","U","V","W","X","Y","Z">>
    IN  CHOOSE i \in 1..26 : lower[i] = c \/ upper[i] = c

\* a.localeCompare(b) < 0, = 0, > 0 as -1, 0, 1 for names made of letters:
\* by letter first, then lower case before upper case
RECURSIVE PrimaryCompare(_, _)
PrimaryCompare(a, b) ==
    IF a = <<>> /\ b = <<>> THEN 0
    ELSE IF a = <<>> THEN -1
    ELSE IF b = <<>> THEN 1
    ELSE IF LetterRank(Head(a)) < LetterRank(Head(b)) THEN -1
    ELSE IF LetterRank(Head(a)) > LetterRank(Head(b)) THEN 1
    ELSE PrimaryCompare(Tail(a), Tail(b))

RECURSIVE CaseCompare(_, _)
CaseCompare(a, b) ==
    IF a = <<>> THEN 0
    ELSE IF Head(a) = Head(b) THEN CaseCompare(Tail(a), Tail(b))
    ELSE IF Head(a) \in LowerLetters THEN -1 ELSE 1

localeCompare(a, b) ==
    IF PrimaryCompare(a, b) # 0 THEN PrimaryCompare(a, b) ELSE CaseCompare(a, b)

\* the comparator of sortedProjectIds
CompareKeys(projects, a, b) ==
    IF a = "inbox" THEN -1
    ELSE IF b = "inbox" THEN 1
    ELSE localeCompare(Val(ProjectName(projects, a)), Val(ProjectName(projects, b)))

\* Array.prototype.sort (stable): insertion of each key after the keys that
\* do not sort after it
RECURSIVE InsertKey(_, _, _)
InsertKey(projects, sorted, k) ==
    IF sorted = <<>> THEN <<k>>
    ELSE IF CompareKeys(projects, k, Head(sorted)) < 0 THEN <<k>> \o sorted
    ELSE <<Head(sorted)>> \o InsertKey(projects, Tail(sorted), k)

RECURSIVE SortKeys(_, _, _)
SortKeys(projects, keys, n) ==
    IF n = 0 THEN <<>>
    ELSE InsertKey(projects, SortKeys(projects, keys, n - 1), keys[n])

\* the comparator reads .localeCompare of undefined when it compares two
\* project keys of which one names no project
SortThrows(projects, keys) ==
    LET named == { k \in Range(keys) : k # "inbox" }
    IN  Cardinality(named) >= 2 /\ \E k \in named : ~IsSome(ProjectName(projects, k))

\* slip: the group keys are left in the order of Object.keys
SortedProjectIds_unsorted(tasks, projects) == ObjectKeys(tasks, 1)

\* sortedProjectIds of tasks (an array) and projects (an array)
SortedProjectIds(tasks, projects) ==
    LET keys == ObjectKeys(tasks, 1)
    IN  SortKeys(projects, keys, Len(keys))

(***************************************************************************)
(* Rendering of one task: the pieces both text modes assemble.             *)
(***************************************************************************)
\* slip: the ordinal is printed as it is, 1 as P1 and 4 without a prefix
PriorityPrefix_direct(task) ==
    CASE task.priority = 1 -> "(P1) "
      [] task.priority = 2 -> "(P2) "
      [] task.priority = 3 -> "(P3) "
      [] OTHER -> ""

\* priorityPrefix of formatListItem and of buildPlainTextForTasks
PriorityPrefix(task) ==
    CASE task.priority = 4 -> "(P1) "
      [] task.priority = 3 -> "(P2) "
      [] task.priority = 2 -> "(P3) "
      [] OTHER -> ""

\* new Date().toLocaleDateString(): the calendar day of the instant in the
\* time zone of the script
toLocaleDateString(instant) == (instant + ZoneOffset(scriptZone)) \div DayMs

\* new Date().toLocaleString(): that day and the second of the day
toLocaleString(instant) ==
    [day |-> (instant + ZoneOffset(scriptZone)) \div DayMs,
     second |-> ((instant + ZoneOffset(scriptZone)) % DayMs) \div 1000]

\* new Date().toISOString(): the UTC day and the millisecond of the day
toISOString(instant) == [day |-> instant \div DayMs, ms |-> instant % DayMs]

\* Utilities.formatDate(date, zone, pattern): the calendar day of the
\* instant in the zone and, for a pattern with a time, the minute of that day
FormatDate(instant, zone, pattern) ==
    LET local == instant + ZoneOffset(zone)
    IN  [pattern |-> pattern,
         day |-> local \div DayMs,
         minute |-> IF pattern = "MMM d, yyyy 'at' h:mm a"
                    THEN Some((local % DayMs) \div 60000) ELSE None]

\* slip: the due day is printed as the number of days from today
PlainDueString_relative(task, tz) ==
    IF ~IsSome(task.due) THEN None
    ELSE LET due == Val(task.due)
             today == toLocaleDateString(clock)
         IN  IF IsSome(due.datetime)
             THEN Some([FormatDate(Val(due.datetime), tz, "MMM d, yyyy 'at' h:mm a")
                          EXCEPT !.day = @ - today])
             ELSE IF IsSome(due.date)
             THEN Some([FormatDate(LocalMidnight(Val(due.date)), UTC, "MMM d, yyyy")
                          EXCEPT !.day = @ - today])
             ELSE None

\* dueDateString of buildPlainTextForTasks (lines 525-535, 583-593)
PlainDueString(task, tz) ==
    IF ~IsSome(task.due) THEN None
    ELSE LET due == Val(task.due)
         IN  IF IsSome(due.datetime)
             THEN Some(FormatDate(Val(due.datetime), tz, "MMM d, yyyy 'at' h:mm a"))
             ELSE IF IsSome(due.date)
             THEN Some(FormatDate(LocalMidnight(Val(due.date)), UTC, "MMM d, yyyy"))
             ELSE None

\* formatListItem reads task.due.date.split whenever there is no datetime
FormatListItemThrows(task) ==
    IsSome(task.due) /\ ~IsSome(Val(task.due).datetime) /\ ~IsSome(Val(task.due).date)

\* dueDateString of formatListItem (lines 723-738)
DocDueString(task, tz) ==
    IF ~IsSome(task.due) THEN None
    ELSE LET due == Val(task.due)
         IN  IF IsSome(due.datetime)
             THEN Some(FormatDate(Val(due.datetime), tz, "MMM d, yyyy 'at' h:mm a"))
             ELSE Some(FormatDate(LocalMidnight(Val(due.date)), UTC, "MMM d, yyyy"))

\* metadataSuffix of the plain-text mode: comment count and creation date
MetadataParts(task, tz) ==
    (IF task.comment_count > 0 THEN <<<<"comments", task.comment_count>>>> ELSE <<>>)
      \o (IF IsSome(task.created_at)
          THEN <<<<"created", FormatDate(Val(task.created_at), tz, "MMM d")>>>>
          ELSE <<>>)

RECURSIVE FlatMapIdx(_, _, _)
FlatMapIdx(q, F(_), i) ==
    IF i > Len(q) THEN <<>> ELSE F(q[i]) \o FlatMapIdx(q, F, i + 1)
FlatMap(q, F(_)) == FlatMapIdx(q, F, 1)

\* the task line and its blockquote lines; description is the sequence of
\* the trimmed lines of task.description
PlainTaskLines(task, indent, tz) ==
    <<Line("task", <<indent, PriorityPrefix(task), task.content,
                     PlainDueString(task, tz), task.labels, MetadataParts(task, tz)>>)>>
      \o FlatMap(IF task.description = "" THEN <<>> ELSE <<task.description>>,
                 LAMBDA d : <<Line("quote", <<indent, d>>)>>)

PlainTaskWithSubtasks(task, tz) ==
    PlainTaskLines(task, 0, tz)
      \o (IF HasSubtasks(task)
          THEN FlatMap(Val(task.subtasks), LAMBDA st : PlainTaskLines(st, 1, tz))
          ELSE <<>>)

\* the header: title and metadata line of both text modes
MetadataLine(tasks, projects, tz) ==
    LET q == IF tasks.t = "array" THEN tasks.v ELSE <<>>
        withLabels == Count(q, HasLabels)
        withComments == Count(q, HasComments)
        subs == SubtaskTotal(q, 1)
    IN  <<<<"Export date", toLocaleString(clock)>>, <<"Timezone", tz>>,
          <<"Total tasks", Len(q)>>,
          <<"Total projects", IF projects.t = "array" THEN Some(Len(projects.v)) ELSE None>>>>
          \o (IF withLabels > 0 THEN <<<<"Tasks with labels", withLabels>>>> ELSE <<>>)
          \o (IF withComments > 0 THEN <<<<"Tasks with comments", withComments>>>> ELSE <<>>)
          \o (IF subs > 0 THEN <<<<"Sub-tasks", subs>>>> ELSE <<>>)

(***************************************************************************)
(* buildPlainTextForTasks: the lines of the text file.                     *)
(***************************************************************************)
\* slip: no branch for the empty list, whose loop over no group adds nothing
buildPlainTextForTasks_noEmptyBranch(tasks, projects, properties) ==
    LET tz == getTimezone(properties)
        header == <<Line("title", <<"Todoist Tasks for ", toLocaleDateString(clock)>>),
                    Line("meta", MetadataLine(tasks, projects, tz)),
                    Line("", <<>>)>>
    IN  IF tasks.t # "array" \/ Len(tasks.v) = 0
        THEN Ok(header)
        ELSE IF projects.t # "array"
        THEN Fail(TypeError("projects.map is not a function"))
        ELSE IF SortThrows(projects.v, ObjectKeys(tasks.v, 1))
        THEN Fail(TypeError("Cannot read properties of undefined (reading 'localeCompare')"))
        ELSE Ok(header \o
                FlatMap(SortedProjectIds(tasks.v, projects.v),
                        LAMBDA k :
                          <<Line("group", <<IF k = "inbox" THEN Some(<<"I","n","b","o","x">>)
                                            ELSE ProjectName(projects.v, k)>>)>>
                            \o FlatMap(TasksOfProject(tasks.v, k),
                                       LAMBDA t : PlainTaskWithSubtasks(t, tz))
                            \o <<Line("", <<>>)>>))

buildPlainTextForTasks(tasks, projects, properties) ==
    LET tz == getTimezone(properties)
        header == <<Line("title", <<"Todoist Tasks for ", toLocaleDateString(clock)>>),
                    Line("meta", MetadataLine(tasks, projects, tz)),
                    Line("", <<>>)>>
    IN  IF tasks.t # "array" \/ Len(tasks.v) = 0
        THEN Ok(header \o <<Line("No tasks due today.", <<>>)>>)
        ELSE IF projects.t # "array"
        THEN Fail(TypeError("projects.map is not a function"))
        ELSE IF SortThrows(projects.v, ObjectKeys(tasks.v, 1))
        THEN Fail(TypeError("Cannot read properties of undefined (reading 'localeCompare')"))
        ELSE Ok(header \o
                FlatMap(SortedProjectIds(tasks.v, projects.v),
                        LAMBDA k :
                          <<Line("group", <<IF k = "inbox" THEN Some(<<"I","n","b","o","x">>)
                                            ELSE ProjectName(projects.v, k)>>)>>
                            \o FlatMap(TasksOfProject(tasks.v, k),
                                       LAMBDA t : PlainTaskWithSubtasks(t, tz))
                            \o <<Line("", <<>>)>>))

(***************************************************************************)
(* writeTasksToDoc: the calls on the document body, in order.  A step is   *)
(* the paragraph a call leaves in the document and the exception the code  *)
(* raises at that point, if any.                                           *)
(***************************************************************************)
Step(para, err) == [para |-> para, err |-> err]
Para(kind, detail) == Step(Some(Line(kind, detail)), None)
Raises(e) == Step(None, Some(e))

\* const description = task.description ? ' - ' + task.description : ''
\* (the dash of the source is U+2014)
DocDescription(task) ==
    IF task.description = "" THEN "" ELSE " -- " \o task.description

\* slip: the description is left out of the list item
DocItemStep_noDescription(task, indent, tz) ==
    IF FormatListItemThrows(task)
    THEN Step(Some(Line("item", <<>>)),
              Some(TypeError("Cannot read properties of undefined (reading 'split')")))
    ELSE Para("item", <<indent, PriorityPrefix(task), task.content, "",
                        DocDueString(task, tz), task.labels>>)

\* appendListItem('') and then formatListItem on it: the pieces appended
\* to the item, in order
DocItemStep(task, indent, tz) ==
    IF FormatListItemThrows(task)
    THEN Step(Some(Line("item", <<>>)),
              Some(TypeError("Cannot read properties of undefined (reading 'split')")))
    ELSE Para("item", <<indent, PriorityPrefix(task), task.content, DocDescription(task),
                        DocDueString(task, tz), task.labels>>)

DocTaskSteps(task, tz) ==
    <<DocItemStep(task, 0, tz)>>
      \o (IF HasSubtasks(task)
          THEN FlatMap(Val(task.subtasks), LAMBDA st : <<DocItemStep(st, 1, tz)>>)
          ELSE <<>>)

\* body.appendParagraph(projectName): the call rejects an undefined name
DocGroupSteps(tasks, projects, k, tz) ==
    LET name == IF k = "inbox" THEN Some(<<"I","n","b","o","x">>)
                ELSE ProjectName(projects, k)
    IN  IF ~IsSome(name)
        THEN <<Raises(Error("Exception", "The parameters (null) don't match the method signature for DocumentApp.Body.appendParagraph.", None, None))>>
        ELSE <<Para("heading2", <<name>>)>>
               \o FlatMap(TasksOfProject(tasks, k), LAMBDA t : DocTaskSteps(t, tz))

DocSteps(tasks, projects, properties) ==
    LET tz == getTimezone(properties)
        title == <<Para("heading1", <<"Todoist Tasks for ", toLocaleDateString(clock)>>)>>
    IN  IF tasks.t # "array"
        THEN title \o <<Raises(TypeError("Cannot read properties of null (reading 'length')"))>>
        ELSE IF projects.t = "null"
        THEN title \o <<Raises(TypeError("Cannot read properties of undefined (reading 'length')"))>>
        ELSE title
               \o <<Para("italic", MetadataLine(tasks, projects, tz)), Para("", <<>>)>>
               \o (IF Len(tasks.v) = 0 THEN <<Para("No tasks due today.", <<>>)>>
                   ELSE IF projects.t # "array"
                   THEN <<Raises(TypeError("projects.map is not a function"))>>
                   ELSE IF SortThrows(projects.v, ObjectKeys(tasks.v, 1))
                   THEN <<Raises(TypeError("Cannot read properties of undefined (reading 'localeCompare')"))>>
                   ELSE FlatMap(SortedProjectIds(tasks.v, projects.v),
                                LAMBDA k : DocGroupSteps(tasks.v, projects.v, k, tz)))

\* the first step that raises, or 0
FirstRaise(steps) ==
    LET bad == { i \in 1..Len(steps) : IsSome(steps[i].err) }
    IN  IF bad = {} THEN 0 ELSE CHOOSE i \in bad : \A j \in bad : i <= j

\* the paragraphs the first n steps leave in the document
RECURSIVE Paragraphs(_, _)
Paragraphs(steps, n) ==
    IF n = 0 THEN <<>> ELSE Paragraphs(steps, n - 1) \o steps[n].para

(***************************************************************************)
(* writeTasksToJsonFile: the exported object.                              *)
(***************************************************************************)
CountPriority(q, p) == Count(q, LAMBDA t : t.priority = p)

\* Count by priority: 4 is p1, 3 is p2, 2 is p3, anything else p4
ByPriority(q) ==
    [p1 |-> CountPriority(q, 4), p2 |-> CountPriority(q, 3), p3 |-> CountPriority(q, 2),
     p4 |-> Count(q, LAMBDA t : t.priority \notin {4, 3, 2})]

\* slip: a task counts as labelled and as commented whenever it has the field
TaskStats_anyField(tasks) ==
    LET q == IF tasks.t = "array" THEN tasks.v ELSE <<>>
    IN  [total |-> Len(q),
         withDueDates |-> Count(q, LAMBDA t : IsSome(t.due)),
         withLabels |-> Len(q),
         withComments |-> Len(q),
         byPriority |-> ByPriority(q),
         subtaskCount |-> 0]

\* taskStats of tasks (an array or null)
TaskStats(tasks) ==
    LET q == IF tasks.t = "array" THEN tasks.v ELSE <<>>
    IN  [total |-> Len(q),
         withDueDates |-> Count(q, LAMBDA t : IsSome(t.due)),
         withLabels |-> Count(q, HasLabels),
         withComments |-> Count(q, HasComments),
         byPriority |-> ByPriority(q),
         subtaskCount |-> 0]

JsonData(tasks, projects, properties) ==
    [exportMetadata |-> [exportDate |-> toISOString(clock), timezone |-> getTimezone(properties),
                         apiVersion |-> "v2", scriptVersion |-> "1.0.0"],
     statistics |-> [tasks |-> TaskStats(tasks),
                     projects |-> [total |-> IF projects.t = "array" THEN Len(projects.v) ELSE 0]],
     data |-> [tasks |-> tasks, projects |-> projects]]

(***************************************************************************)
(* The three sync routines.                                                *)
(***************************************************************************)
\* what the platform does to a call on a sink: nothing, or it throws
\* (permission denied, quota exceeded) at the named call
DocFailures == {"none", "open", "append"}
FileFailures == {"none", "setContent"}

Seen(r, tasks, projects) == [routine |-> r, tasks |-> tasks, projects |-> projects]
SinkOp(sink, op, id) == [sink |-> sink, op |-> op, id |-> id]
PlatformError(m) == Error("Exception", m, None, None)

\* bundles a caller may hand to a sync routine it invokes itself
MalformedData == Bundle(Null, Null, Null)
SmallData ==
    Bundle(Arr(<<[Task("t1", None, Some("p1"), DueDate(1), 4, <<"work">>, 0) EXCEPT !.subtasks = Some(<<>>)]>>),
           Arr(<<Task("t1", None, Some("p1"), DueDate(1), 4, <<"work">>, 0),
                 Task("t3", None, Some("p1"), None, 1, <<>>, 0)>>),
           Arr(<<Project("p1", <<"W","o","r","k">>)>>))
PreFetchedValues == { None, Some(MalformedData), Some(SmallData) }

\* the property stores under which a sync routine is run directly
RoutineStores ==
    { FullStore, [FullStore EXCEPT !.TODOIST_TOKEN = None],
      Store(None, None, None, None, None) }

\* a trigger or the user runs one sync routine directly
invokeRoutine ==
    /\ pc = "Idle"
    /\ props \in RoutineStores
    /\ \E r \in {"doc", "text", "json"}, pre \in PreFetchedValues :
         /\ entry' = r
         /\ data' = pre
         /\ pc' = r
    /\ UNCHANGED <<props, scriptZone, clock, renderings, resolved, fullText, textElement, caller, todoistData, filteredTasks, idx, http, lastResponse, log, error,
                   calls, seen, docs, files, sinkOps>>

\* slip: no sync routine is handed the shared bundle
ArgumentFor_none(r) == IF entry = "syncTodoist" THEN None ELSE data

\* slip: the JSON routine is called without the shared bundle
ArgumentFor_jsonAlone(r) ==
    IF entry = "syncTodoist" /\ (targetCount <= 1 \/ r = "json") THEN None ELSE data

\* the argument the sync routine r is called with: the shared bundle when
\* two or more targets are configured (lines 64-66), nothing when one is
\* (lines 69-71), the caller's argument when the routine is run directly
ArgumentFor(r) ==
    IF entry = "syncTodoist" /\ targetCount <= 1 THEN None ELSE data

\* "const todoistData = preFetchedData || getTodoistData()" of routine r
EnterRoutine(r, lg) ==
    /\ pc = r
    /\ calls' = Append(calls, [routine |-> r, arg |-> ArgumentFor(r)])
    /\ log' = lg
    /\ IF IsSome(ArgumentFor(r))
       THEN /\ todoistData' = ArgumentFor(r)
            /\ pc' = WritePc(r)
            /\ caller' = caller
       ELSE /\ todoistData' = None
            /\ pc' = "getTodoistData"
            /\ caller' = r
    /\ UNCHANGED <<props, scriptZone, clock, renderings, resolved, fullText, textElement, entry, data, filteredTasks, idx, http, lastResponse, error, seen,
                   docs, files, sinkOps>>

syncTodoistToDoc == EnterRoutine("doc", log)

syncTodoistToTextFile ==
    EnterRoutine("text", log \o <<Line("DEBUG: syncTodoistToTextFile() started", <<>>)>>)

syncTodoistToJsonFile == EnterRoutine("json", log)

\* body.setText(''): nothing of the old body is left for the paragraphs
\* the writer appends
setText(body) == <<>>

\* slip: the new content is added behind the old
setContent_append(old, content) == old \o content

\* file.setContent(content): the content replaces what the file held
setContent(old, content) == content

\* slip: the file is emptied before its new content is put together
FileBeforeSetContent_truncated(old) == <<>>

\* the file while its writer resolves the identifier, looks the file up and
\* renders: no call touches it before file.setContent
FileBeforeSetContent(old) == old

\* slip: the routine has no catch block around its writer
RoutineEnds_uncaught(r, lg, failure) ==
    /\ log' = lg \o (IF IsSome(failure) THEN <<>>
                     ELSE <<Line(SuccessText(r), <<>>)>> \o ReturnLog(r))
    /\ pc' = IF IsSome(failure) THEN "Raised" ELSE AfterRoutine(r)

\* the routine r ends: with its success line, or in its catch block
RoutineEnds(r, lg, failure) ==
    /\ log' = lg \o (IF IsSome(failure) THEN CatchLog(r, Val(failure))
                     ELSE <<Line(SuccessText(r), <<>>)>>)
                \o ReturnLog(r)
    /\ pc' = AfterRoutine(r)

\* writeTasksToDoc(todoistData.tasks, todoistData.projects) and the rest of
\* syncTodoistToDoc
writeTasksToDoc ==
    /\ pc = "writeTasksToDoc"
    /\ \E fail \in DocFailures :
         LET td == Val(todoistData)
             id == getDocId(props)
             steps == DocSteps(td.tasks, td.projects, props)
             n == FirstRaise(steps)
             opened == <<SinkOp("doc", "open", id.value)>>
         IN  IF ~id.ok
             THEN /\ RoutineEnds("doc", log, Some(Error("Error", id.message, None, None)))
                  /\ UNCHANGED <<docs, sinkOps>>
             ELSE IF fail = "open" \/ Val(id.value) \notin DocIds
             THEN /\ RoutineEnds("doc", log, Some(PlatformError("Document is missing or inaccessible")))
                  /\ sinkOps' = sinkOps \o opened
                  /\ docs' = docs
             ELSE IF fail = "append"
             THEN /\ RoutineEnds("doc", log, Some(PlatformError("Quota exceeded")))
                  /\ sinkOps' = sinkOps \o opened \o <<SinkOp("doc", "setText", id.value)>>
                  /\ docs' = [docs EXCEPT ![Val(id.value)] = setText(@)]
             ELSE /\ RoutineEnds("doc", log, IF n = 0 THEN None ELSE steps[n].err)
                  /\ sinkOps' = sinkOps \o opened
                                  \o <<SinkOp("doc", "setText", id.value),
                                       SinkOp("doc", "append", id.value)>>
                  /\ docs' = [docs EXCEPT ![Val(id.value)] =
                                setText(@) \o Paragraphs(steps, IF n = 0 THEN Len(steps) ELSE n)]
    /\ seen' = Append(seen, Seen("doc", Val(todoistData).tasks, Val(todoistData).projects))
    /\ UNCHANGED <<props, scriptZone, clock, renderings, resolved, fullText, textElement, entry, caller, data, todoistData, filteredTasks, idx, http,
                   lastResponse, error, calls, files>>

\* the lines buildPlainTextForTasks logs when DEBUG is set
TextDebugLog(tasks) ==
    IF isDebugEnabled(props)
    THEN <<Line("=== TEXT EXPORT DEBUG ===", <<>>),
           Line("Tasks received: ", <<IF tasks.t = "array" THEN Some(Len(tasks.v)) ELSE None>>)>>
           \o (IF tasks.t = "array" /\ Len(tasks.v) > 0
               THEN <<Line("Total sub-tasks found: ", <<SubtaskTotal(tasks.v, 1)>>)>>
               ELSE <<>>)
    ELSE <<>>

\* the rest of syncTodoistToTextFile: the length line and writeTasksToTextFile
writeTasksToTextFile ==
    /\ pc = "writeTasksToTextFile"
    /\ \E fail \in FileFailures :
         LET td == Val(todoistData)
             id == getTextFileId(props)
             text == buildPlainTextForTasks(td.tasks, td.projects, props)
             lg == log \o <<Line("DEBUG: Got tasks from Todoist", <<Len(td.tasks.v)>>)>>
             opened == <<SinkOp("file", "open", id.value)>>
         IN  IF td.tasks.t # "array"
             THEN /\ RoutineEnds("text", log, Some(TypeError("Cannot read properties of null (reading 'length')")))
                  /\ UNCHANGED <<files, sinkOps>>
             ELSE IF ~id.ok
             THEN /\ RoutineEnds("text", lg, Some(Error("Error", id.message, None, None)))
                  /\ UNCHANGED <<files, sinkOps>>
             ELSE IF Val(id.value) \notin FileIds
             THEN /\ RoutineEnds("text", lg, Some(PlatformError("File is missing or inaccessible")))
                  /\ sinkOps' = sinkOps \o opened
                  /\ files' = files
             ELSE IF ~text.ok
             THEN /\ RoutineEnds("text", lg \o TextDebugLog(td.tasks), text.err)
                  /\ sinkOps' = sinkOps \o opened
                  /\ files' = [files EXCEPT ![Val(id.value)] = FileBeforeSetContent(@)]
             ELSE IF fail = "setContent"
             THEN /\ RoutineEnds("text", lg \o TextDebugLog(td.tasks), Some(PlatformError("Quota exceeded")))
                  /\ sinkOps' = sinkOps \o opened
                  /\ files' = files
             ELSE /\ RoutineEnds("text", lg \o TextDebugLog(td.tasks), None)
                  /\ sinkOps' = sinkOps \o opened \o <<SinkOp("file", "setContent", id.value)>>
                  /\ files' = [files EXCEPT ![Val(id.value)] = setContent(@, Val(text.value))]
    /\ seen' = Append(seen, Seen("text", Val(todoistData).tasks, Val(todoistData).projects))
    /\ UNCHANGED <<props, scriptZone, clock, renderings, resolved, fullText, textElement, entry, caller, data, todoistData, filteredTasks, idx, http,
                   lastResponse, error, calls, docs>>

\* writeTasksToJsonFile(todoistData.rawTasks, todoistData.projects) and the
\* rest of syncTodoistToJsonFile
writeTasksToJsonFile ==
    /\ pc = "writeTasksToJsonFile"
    /\ \E fail \in FileFailures :
         LET td == Val(todoistData)
             id == getJsonFileId(props)
             opened == <<SinkOp("file", "open", id.value)>>
         IN  IF ~id.ok
             THEN /\ RoutineEnds("json", log, Some(Error("Error", id.message, None, None)))
                  /\ UNCHANGED <<files, sinkOps>>
             ELSE IF Val(id.value) \notin FileIds
             THEN /\ RoutineEnds("json", log, Some(PlatformError("File is missing or inaccessible")))
                  /\ sinkOps' = sinkOps \o opened
                  /\ files' = files
             ELSE IF td.rawTasks.t = "object"
             THEN /\ RoutineEnds("json", log, Some(TypeError("tasks.forEach is not a function")))
                  /\ sinkOps' = sinkOps \o opened
                  /\ files' = [files EXCEPT ![Val(id.value)] = FileBeforeSetContent(@)]
             ELSE IF fail = "setContent"
             THEN /\ RoutineEnds("json", log, Some(PlatformError("Quota exceeded")))
                  /\ sinkOps' = sinkOps \o opened
                  /\ files' = files
             ELSE /\ RoutineEnds("json", log, None)
                  /\ sinkOps' = sinkOps \o opened \o <<SinkOp("file", "setContent", id.value)>>
                  /\ files' = [files EXCEPT ![Val(id.value)] =
                                 setContent(@, <<Line("json", <<JsonData(td.rawTasks, td.projects, props)>>)>>)]
    /\ seen' = Append(seen, Seen("json", Val(todoistData).rawTasks, Val(todoistData).projects))
    /\ UNCHANGED <<props, scriptZone, clock, renderings, resolved, fullText, textElement, entry, caller, data, todoistData, filteredTasks, idx, http,
                   lastResponse, error, calls, docs>>

Next ==
    \/ syncTodoist
    \/ invokeRoutine
    \/ syncTodoistToDoc
    \/ syncTodoistToTextFile
    \/ syncTodoistToJsonFile
    \/ getTodoistData
    \/ fetchTasksWithSubtasks
    \/ fetchProjects
    \/ writeTasksToDoc
    \/ writeTasksToTextFile
    \/ writeTasksToJsonFile

Spec == Init /\ [][Next]_vars

(***************************************************************************)
(* formatListItem, step 3: the Markdown passes over the text of a list     *)
(* item.  A text element is the sequence of its characters, each with the  *)
(* attributes the document keeps for it; offsets are 0-based and ranges    *)
(* inclusive, as in the calls of the source.                               *)
(***************************************************************************)
MaxText == 5

Glyph(c, bold) == [c |-> c, bold |-> bold, italic |-> FALSE, link |-> None]
getText(el) == [i \in 1..Len(el) |-> el[i].c]

\* Text.deleteText(startOffset, endOffsetInclusive)
deleteText(el, from, to) == SubSeq(el, 1, from) \o SubSeq(el, to + 2, Len(el))

\* Text.insertText(offset, text): the new characters take the attributes of
\* the character in front of them, or of the one behind at offset 0
insertText(el, at, chars) ==
    LET like == IF at > 0 THEN el[at]
                ELSE IF Len(el) > 0 THEN el[1] ELSE Glyph("", FALSE)
    IN  SubSeq(el, 1, at)
          \o [i \in 1..Len(chars) |-> [like EXCEPT !.c = chars[i]]]
          \o SubSeq(el, at + 1, Len(el))

setBold(el, from, to) ==
    [i \in 1..Len(el) |-> IF from < i /\ i <= to + 1 THEN [el[i] EXCEPT !.bold = TRUE] ELSE el[i]]
setItalic(el, from, to) ==
    [i \in 1..Len(el) |-> IF from < i /\ i <= to + 1 THEN [el[i] EXCEPT !.italic = TRUE] ELSE el[i]]
setLinkUrl(el, from, to, url) ==
    [i \in 1..Len(el) |-> IF from < i /\ i <= to + 1 THEN [el[i] EXCEPT !.link = Some(url)] ELSE el[i]]

\* a match of a regular expression: match.index, match[0].length, and the
\* captured groups match[1], match[2]
Match(index, length, groups) == [index |-> index, length |-> length, groups |-> groups]

\* the first position from `from` on that holds the character c, or 0
NextChar(text, from, c) ==
    LET hits == { i \in from..Len(text) : text[i] = c }
    IN  IF hits = {} THEN 0 ELSE CHOOSE i \in hits : \A j \in hits : i <= j

\* /\[([^\]]+)\]\(([^)]+)\)/ matched at position i
LinkAt(text, i) ==
    IF text[i] # "[" THEN None
    ELSE LET close == NextChar(text, i + 1, "]")
         IN  IF close = 0 \/ close = i + 1 \/ close = Len(text) THEN None
             ELSE IF text[close + 1] # "(" THEN None
             ELSE LET end == NextChar(text, close + 2, ")")
                  IN  IF end = 0 \/ end = close + 2 THEN None
                      ELSE Some(Match(i - 1, end - i + 1,
                                      <<SubSeq(text, i + 1, close - 1),
                                        SubSeq(text, close + 2, end - 1)>>))

\* /\*\*(.*?)\*\*/ matched at position i: up to the nearest closing pair
BoldAt(text, i) ==
    IF i + 1 > Len(text) \/ text[i] # "*" \/ text[i + 1] # "*" THEN None
    ELSE LET closers == { m \in (i + 2)..(Len(text) - 1) : text[m] = "*" /\ text[m + 1] = "*" }
         IN  IF closers = {} THEN None
             ELSE LET m == CHOOSE x \in closers : \A y \in closers : x <= y
                  IN  Some(Match(i - 1, m + 2 - i, <<SubSeq(text, i + 2, m - 1)>>))

\* /\*([^*]+)\*/ matched at position i
ItalicAt(text, i) ==
    IF text[i] # "*" THEN None
    ELSE LET m == NextChar(text, i + 1, "*")
         IN  IF m = 0 \/ m = i + 1 THEN None
             ELSE Some(Match(i - 1, m - i + 1, <<SubSeq(text, i + 1, m - 1)>>))

\* [...text.matchAll(regex)]: the matches from left to right, each search
\* starting behind the match before
MatchAt(regex, text, i) ==
    CASE regex = "link" -> LinkAt(text, i)
      [] regex = "bold" -> BoldAt(text, i)
      [] regex = "italic" -> ItalicAt(text, i)

RECURSIVE MatchAll(_, _, _)
MatchAll(text, i, regex) ==
    IF i > Len(text) THEN <<>>
    ELSE IF IsSome(MatchAt(regex, text, i))
    THEN <<Val(MatchAt(regex, text, i))>>
           \o MatchAll(text, i + Val(MatchAt(regex, text, i)).length, regex)
    ELSE MatchAll(text, i + 1, regex)

\* the body of the link loop (lines 787-795)
LinkEdit(el, match) ==
    LET linkText == match.groups[1]
        url == match.groups[2]
        startIndex == match.index
        deleted == deleteText(el, startIndex, startIndex + match.length - 1)
        inserted == insertText(deleted, startIndex, linkText)
    IN  setLinkUrl(inserted, startIndex, startIndex + Len(linkText) - 1, url)

\* the body of the bold loop (lines 801-808)
BoldEdit(el, match) ==
    LET startIndex == match.index
        innerTextLength == Len(match.groups[1])
        bold == setBold(el, startIndex, startIndex + match.length - 1)
        closed == deleteText(bold, startIndex + 1 + innerTextLength,
                             startIndex + 1 + innerTextLength + 1)
    IN  deleteText(closed, startIndex, startIndex + 1)

\* the body of the italic loop (lines 814-821)
ItalicEdit(el, match) ==
    LET startIndex == match.index
        innerTextLength == Len(match.groups[1])
        italic == setItalic(el, startIndex, startIndex + match.length - 1)
        closed == deleteText(italic, startIndex + 1 + innerTextLength,
                             startIndex + 1 + innerTextLength)
    IN  deleteText(closed, startIndex, startIndex)

EditOf(regex, el, match) ==
    CASE regex = "link" -> LinkEdit(el, match)
      [] regex = "bold" -> BoldEdit(el, match)
      [] regex = "italic" -> ItalicEdit(el, match)

\* slip: the loop runs from the first match to the last
IterationIndex_ascending(n, j) == j

\* for (let i = matches.length - 1; i >= 0; i--): the match (counted from
\* 1) that the j-th iteration of the loop over n matches processes
IterationIndex(n, j) == n - j + 1

\* the text element after the first j iterations of the loop
RECURSIVE FromLast(_, _, _, _)
FromLast(el, matches, j, regex) ==
    IF j = 0 THEN el
    ELSE EditOf(regex, FromLast(el, matches, j - 1, regex),
                matches[IterationIndex(Len(matches), j)])

\* the contents a task may have: every text of at most MaxText characters
\* over an asterisk and two letters, and some texts with links
MarkChars == {"*", "a", "b"}
BoldText == <<"*","*","t","e","x","t","*","*">>
LinkText == <<"[","a","]","(","h","t","t","p",":","/","/","x",")">>
BoldLink == <<"*","*">> \o LinkText \o <<"*","*">>
TwoLinks == <<"[","a","]","(","x",")"," ","[","b","b","]","(","y",")">>
TwoBolds == <<"*","*","a","*","*","*","*","b","b","*","*">>
TwoItalics == <<"*","a","*","*","b","b","*">>
ItemTexts ==
    SeqsUpTo(MarkChars, MaxText)
      \cup { BoldText, LinkText, BoldLink, <<"a"," ">> \o LinkText \o <<" ","*","b","*">>,
              TwoLinks, TwoBolds, TwoItalics, TwoLinks \o <<" ">> \o TwoItalics }

\* formatListItem up to line 782 for a task with only a content: the
\* content is appended and set bold, and fullText is read
FormatInit ==
    /\ props = FullStore /\ scriptZone = DefaultTimezone
    /\ clock = Now /\ renderings = <<>> /\ resolved = <<>>
    /\ pc = "linkPass"
    /\ entry = "formatListItem" /\ caller = "none"
    /\ data = None /\ todoistData = None /\ filteredTasks = <<>> /\ idx = 0
    /\ http = <<>> /\ lastResponse = None /\ log = <<>> /\ error = None
    /\ calls = <<>> /\ seen = <<>> /\ sinkOps = <<>>
    /\ docs = [d \in DocIds |-> OldDoc]
    /\ files = [f \in FileIds |-> OldFile]
    /\ fullText \in ItemTexts
    /\ textElement = [i \in 1..Len(fullText) |-> Glyph(fullText[i], TRUE)]

Unformatted == <<props, scriptZone, clock, renderings, resolved, entry, caller, data, todoistData, filteredTasks, idx,
                 http, lastResponse, log, error, calls, seen, docs, files, sinkOps, fullText>>

\* Handle Links: [text](url)
linkPass ==
    /\ pc = "linkPass"
    /\ LET linkMatches == MatchAll(fullText, 1, "link")
       IN  textElement' = FromLast(textElement, linkMatches, Len(linkMatches), "link")
    /\ pc' = "boldPass"
    /\ UNCHANGED Unformatted

\* Handle Bold: **text**
boldPass ==
    /\ pc = "boldPass"
    /\ LET boldMatches == MatchAll(getText(textElement), 1, "bold")
       IN  textElement' = FromLast(textElement, boldMatches, Len(boldMatches), "bold")
    /\ pc' = "italicPass"
    /\ UNCHANGED Unformatted

\* Handle Italics: *text*
italicPass ==
    /\ pc = "italicPass"
    /\ LET italicMatches == MatchAll(getText(textElement), 1, "italic")
       IN  textElement' = FromLast(textElement, italicMatches, Len(italicMatches), "italic")
    /\ pc' = "formatted"
    /\ UNCHANGED Unformatted

FormatNext == linkPass \/ boldPass \/ italicPass

FormatSpec == FormatInit /\ [][FormatNext]_vars

(***************************************************************************)
(* Rendering one fetched bundle more than once: the three renderers        *)
(* applied to the bundle at the instant of the clock, and time passing     *)
(* between two renderings.                                                 *)
(***************************************************************************)
\* the tasks q, each with the list c attached as fetchTasksWithSubtasks
\* attaches it
Attached(q, c) == [i \in DOMAIN q |-> [q[i] EXCEPT !.subtasks = Some(c)]]

\* the bundles getTodoistData may return
RenderBundles ==
    { Bundle(Arr(Attached(q, c)), Arr(Attached(q, c)), Arr(p)) :
        q \in TaskLists, c \in ChildLists, p \in ProjectLists }

\* the instants at which the bundle is rendered: the start of the run, a
\* millisecond later, a second later, a day later
Instants == { Now, Now + 1, Now + 1000, Now + DayMs }

\* what the writers put together from a bundle: the paragraphs of
\* writeTasksToDoc, the lines of buildPlainTextForTasks, the object of
\* writeTasksToJsonFile
Rendering(bundle, properties) ==
    LET steps == DocSteps(bundle.tasks, bundle.projects, properties)
        n == FirstRaise(steps)
    IN  [at |-> clock,
         doc |-> Paragraphs(steps, IF n = 0 THEN Len(steps) ELSE n),
         text |-> buildPlainTextForTasks(bundle.tasks, bundle.projects, properties),
         json |-> JsonData(bundle.rawTasks, bundle.projects, properties)]

RenderInit ==
    /\ \E e \in { <<FullStore, DefaultTimezone>>, <<TimezoneStore, Paris>> } :
          props = e[1] /\ scriptZone = e[2]
    /\ clock = Now /\ renderings = <<>> /\ resolved = <<>>
    /\ pc = "render"
    /\ entry = "render" /\ caller = "none"
    /\ data = None /\ todoistData \in { Some(b) : b \in RenderBundles }
    /\ filteredTasks = <<>> /\ idx = 0
    /\ http = <<>> /\ lastResponse = None /\ log = <<>> /\ error = None
    /\ calls = <<>> /\ seen = <<>> /\ sinkOps = <<>>
    /\ docs = [d \in DocIds |-> OldDoc]
    /\ files = [f \in FileIds |-> OldFile]
    /\ fullText = <<>> /\ textElement = <<>>

Unrendered == <<props, scriptZone, resolved, entry, caller, data, todoistData, filteredTasks, idx,
                http, lastResponse, log, error, calls, seen, docs, files, sinkOps,
                fullText, textElement>>

\* the bundle is rendered in the three modes, a first and a second time
render ==
    /\ pc \in {"render", "renderAgain"}
    /\ renderings' = Append(renderings, Rendering(Val(todoistData), props))
    /\ pc' = IF pc = "render" THEN "renderAgain" ELSE "rendered"
    /\ UNCHANGED clock
    /\ UNCHANGED Unrendered

\* time passes
tick ==
    /\ pc \in {"render", "renderAgain"}
    /\ \E later \in Instants :
         /\ later > clock
         /\ clock' = later
    /\ UNCHANGED <<pc, renderings>>
    /\ UNCHANGED Unrendered

RenderNext == render \/ tick

RenderSpec == RenderInit /\ [][RenderNext]_vars

(***************************************************************************)
(* Target-ID resolution on its own: the three getters applied to a         *)
(* property store whose target keys hold identifiers, sharing URLs and     *)
(* values that are neither.                                                *)
(***************************************************************************)
Https == <<"h","t","t","p","s",":","/","/","g",".","c","o">>
DocIdent == <<"d","o","c","1","2","3","4","5","6","7">>
JsonIdent == <<"j","s","o","n","1","2","3","4","5","6","7">>

\* what a target key may hold
StoredValues ==
    { None, Some(<<>>), Some(<<" ">>), Some(TextFileId),
      Some(<<" ">> \o TextFileId \o <<" ">>),
      Some(DocUrl), Some(FolderUrl), Some(JsonUrl),
      \* an upper-case scheme and a /u/ segment
      Some(<<"H","T","T","P",":","/","/","g",".","c","o","/","u","/">> \o DocIdent),
      \* a /file/d/ segment
      Some(Https \o <<"/","f","i","l","e","/","d","/">> \o DocIdent \o <<"/","v","i","e","w">>),
      \* a folder link that carries an id parameter
      Some(Https \o <<"/","F","o","l","d","e","r","s","/","x","?","i","d","=">> \o JsonIdent),
      \* an id parameter in front of a /d/ segment
      Some(Https \o <<"/","o","p","e","n","?","i","d","=">> \o JsonIdent
                 \o <<"&","r","=","/","d","/">> \o DocIdent),
      \* a link with no identifier, and one whose identifier is too short
      Some(Https \o <<"/","h","o","m","e">>),
      Some(Https \o <<"/","d","/","s","h","o","r","t">>),
      \* a link of another scheme
      Some(<<"f","t","p",":","/","/","g",".","c","o","/","d","/">> \o DocIdent),
      \* a link behind leading white space
      Some(<<" ">> \o DocUrl) }

ResolveInit ==
    /\ \E doc \in StoredValues, text \in StoredValues, json \in StoredValues :
          props = Store(Some(Token), doc, text, json, None)
    /\ scriptZone = DefaultTimezone
    /\ clock = Now /\ renderings = <<>> /\ resolved = <<>>
    /\ pc = "resolve"
    /\ entry = "resolve" /\ caller = "none"
    /\ data = None /\ todoistData = None /\ filteredTasks = <<>> /\ idx = 0
    /\ http = <<>> /\ lastResponse = None /\ log = <<>> /\ error = None
    /\ calls = <<>> /\ seen = <<>> /\ sinkOps = <<>>
    /\ docs = [d \in DocIds |-> OldDoc]
    /\ files = [f \in FileIds |-> OldFile]
    /\ fullText = <<>> /\ textElement = <<>>

Unresolved == <<props, scriptZone, clock, renderings, pc, entry, caller, data, todoistData,
                filteredTasks, idx, http, lastResponse, log, error, calls, seen, docs,
                files, sinkOps, fullText, textElement>>

Resolution(key, result) == [key |-> key, result |-> result]

\* one getter is called, the getters in the order of the targets
callGetDocId ==
    /\ pc = "resolve" /\ Len(resolved) = 0
    /\ resolved' = Append(resolved, Resolution("DOC_ID", getDocId(props)))
    /\ UNCHANGED Unresolved

callGetTextFileId ==
    /\ pc = "resolve" /\ Len(resolved) = 1
    /\ resolved' = Append(resolved, Resolution("TEXT_FILE_ID", getTextFileId(props)))
    /\ UNCHANGED Unresolved

callGetJsonFileId ==
    /\ pc = "resolve" /\ Len(resolved) = 2
    /\ resolved' = Append(resolved, Resolution("JSON_FILE_ID", getJsonFileId(props)))
    /\ UNCHANGED Unresolved

ResolveNext == callGetDocId \/ callGetTextFileId \/ callGetJsonFileId

ResolveSpec == ResolveInit /\ [][ResolveNext]_vars

(***************************************************************************)
(* Properties.  They are stated over the configuration as it is stored,    *)
(* the log, the request log and the sinks.                                 *)
(***************************************************************************)
Routines == {"doc", "text", "json"}
TargetKey(r) ==
    CASE r = "doc" -> "DOC_ID" [] r = "text" -> "TEXT_FILE_ID" [] r = "json" -> "JSON_FILE_ID"
\* the target of routine r is set to a non-empty value
Configured(r) == props[TargetKey(r)] # None /\ props[TargetKey(r)] # Some(<<>>)
NumConfigured == Cardinality({ r \in Routines : Configured(r) })
LogCount(text) == Cardinality({ i \in DOMAIN log : log[i].text = text })
Untouched == docs = [d \in DocIds |-> OldDoc] /\ files = [f \in FileIds |-> OldFile]
NoTargetsMessage ==
    "No output targets configured. Set DOC_ID, TEXT_FILE_ID, and/or JSON_FILE_ID in Script properties."
TokenMessage ==
    "TODOIST_TOKEN is not configured. Set it in Project settings -> Script properties."
FetchPcs == {"getTodoistData", "fetchTasksWithSubtasks", "fetchProjects"}
WritePcs == {"writeTasksToDoc", "writeTasksToTextFile", "writeTasksToJsonFile"}
\* control is inside a sync routine
InRoutine == pc \in WritePcs \/ (pc \in FetchPcs /\ caller # "syncTodoist")
\* routine r was called and has returned, or was left by an exception
Left(r) ==
    \E i \in DOMAIN calls : calls[i].routine = r /\ (i < Len(calls) \/ ~InRoutine)
\* the error e was logged by the catch block of routine r
Logged(r, Is(_)) ==
    \E i \in DOMAIN log : log[i].text = FailurePrefix(r) /\ Is(log[i].detail[1])
\* an error with property Is escaped to the caller or was logged by a routine
Reported(Is(_)) ==
    \/ IsSome(error) /\ Is(Val(error))
    \/ \E r \in Routines : Logged(r, Is)

\* C1: with none of DOC_ID, TEXT_FILE_ID, JSON_FILE_ID set to a non-empty
\* value, syncTodoist raises the 'No output targets configured' error, no
\* HTTP request has been issued and no sink was opened or modified.
C1_NoTargetsRaisesFirst ==
    (entry = "syncTodoist" /\ NumConfigured = 0) =>
        /\ pc = "Raised"
        /\ IsSome(error) /\ Val(error).message = NoTargetsMessage
        /\ http = <<>> /\ lastResponse = None
        /\ sinkOps = <<>> /\ Untouched
        /\ calls = <<>>

\* the run was started with every target set to the empty string
C1_Witness ==
    /\ entry = "syncTodoist" /\ pc = "Raised"
    /\ props.DOC_ID = Some(<<>>) /\ props.TEXT_FILE_ID = Some(<<>>)
    /\ props.JSON_FILE_ID = Some(<<>>)

\* C2: a run of syncTodoist with at least one target fetches the bundle
\* exactly once: centrally when two or more targets are configured (every
\* routine receives that bundle and issues no request), in the single
\* target's routine otherwise; a fetch that succeeded took 2 + (number of
\* retained tasks) requests, whatever the number of targets.
C2_FetchedOnce ==
    (entry = "syncTodoist" /\ NumConfigured >= 1) =>
        /\ LogCount("DEBUG: getTodoistData() started") <= 1
        /\ pc \in {"Done", "Raised"} => LogCount("DEBUG: getTodoistData() started") = 1
        /\ NumConfigured >= 2 =>
             /\ caller \in {"none", "syncTodoist"}
             /\ \A i \in DOMAIN calls : IsSome(calls[i].arg) /\ calls[i].arg = data
             /\ calls # <<>> => Len(http) = 2 + Len(Val(data).rawTasks.v)
        /\ NumConfigured = 1 =>
             /\ data = None
             /\ \A i \in DOMAIN calls : calls[i].arg = None /\ Configured(calls[i].routine)
             /\ caller \in {"none"} \cup { r \in Routines : Configured(r) }
        /\ (IsSome(data) \/ IsSome(todoistData)) => Len(http) = 2 + Len(filteredTasks)
        /\ Len(http) <= 2 + Len(filteredTasks)

\* three targets served from one fetch of two retained tasks: four requests
C2_Witness ==
    /\ entry = "syncTodoist" /\ pc = "Done" /\ NumConfigured = 3
    /\ Len(calls) = 3 /\ Len(filteredTasks) = 2 /\ Len(http) = 4

\* a single target whose own routine fetched: three requests for one task
C2_WitnessSingle ==
    /\ entry = "syncTodoist" /\ pc = "Done" /\ NumConfigured = 1
    /\ Len(calls) = 1 /\ Len(filteredTasks) = 1 /\ Len(http) = 3

\* C3: with at least one target configured no exception escapes
\* syncTodoist, so a run never ends in Raised (the safety half of "the run
\* eventually reaches Done").
C3_NoExceptionEscapes ==
    (entry = "syncTodoist" /\ NumConfigured >= 1) => (pc # "Raised" /\ error = None)

\* C4: a sync routine, called with or without a bundle, never lets an
\* exception escape; when it has returned it has logged exactly one line,
\* its own success line or its own failure line, and the success line only
\* when its sink holds the rendering; with one target configured nothing
\* escapes syncTodoist and a failed fetch is logged as that target's failure.
SeenBy(r) == CHOOSE s \in Range(seen) : s.routine = r
SinkHoldsRendering(r) ==
    /\ \E s \in Range(seen) : s.routine = r
    /\ CASE r = "doc" ->
              LET steps == DocSteps(SeenBy(r).tasks, SeenBy(r).projects, props)
                  id == getDocId(props)
              IN  /\ id.ok /\ Val(id.value) \in DocIds
                  /\ FirstRaise(steps) = 0
                  /\ docs[Val(id.value)] = Paragraphs(steps, Len(steps))
         [] r = "text" ->
              LET text == buildPlainTextForTasks(SeenBy(r).tasks, SeenBy(r).projects, props)
                  id == getTextFileId(props)
              IN  /\ id.ok /\ Val(id.value) \in FileIds
                  /\ text.ok
                  /\ files[Val(id.value)] = Val(text.value)
         [] r = "json" ->
              LET id == getJsonFileId(props)
              IN  /\ id.ok /\ Val(id.value) \in FileIds
                  /\ SeenBy(r).tasks.t # "object"
                  /\ files[Val(id.value)] =
                       <<Line("json", <<JsonData(SeenBy(r).tasks, SeenBy(r).projects, props)>>)>>

C4_WitnessFetch ==
    /\ entry = "syncTodoist" /\ NumConfigured = 1 /\ pc = "Done" /\ seen = <<>>
    /\ IsSome(lastResponse) /\ Val(lastResponse).code = 401
    /\ LogCount(FailurePrefix("json")) = 1

\* the document was opened and the open failed: nothing was written to it
DocOpenFailed ==
    /\ \E i \in DOMAIN sinkOps : sinkOps[i].sink = "doc" /\ sinkOps[i].op = "open"
    /\ \A i \in DOMAIN sinkOps : sinkOps[i].sink = "doc" => sinkOps[i].op = "open"
    /\ ~InRoutine
OnlyDoc == entry = "syncTodoist" /\ NumConfigured = 1 /\ Configured("doc")

ConfiguredOrder == SelectSeq(<<"doc", "text", "json">>, Configured)
CallOrder == [i \in DOMAIN calls |-> calls[i].routine]
SharedRun == entry = "syncTodoist" /\ NumConfigured >= 2

\* C6: after a central fetch that succeeded, the routines of the configured
\* targets, and only those, are invoked once each in the order Doc, Text,
\* JSON, whether or not an earlier writer failed; a writer that logs its
\* success has written the rendering of the shared bundle.
C6_WritersIndependent ==
    (SharedRun /\ IsSome(data)) =>
        /\ pc # "Raised"
        /\ Len(calls) <= Len(ConfiguredOrder)
        /\ CallOrder = SubSeq(ConfiguredOrder, 1, Len(calls))
        /\ pc = "Done" => CallOrder = ConfiguredOrder
        /\ \A i \in DOMAIN seen :
              /\ seen[i].routine = calls[i].routine
              /\ seen[i].projects = Val(data).projects
              /\ seen[i].tasks = Val(data).tasks
        /\ \A r \in Routines : LogCount(SuccessText(r)) = 1 => SinkHoldsRendering(r)

\* the document writer failed and both later writers succeeded
C6_Witness ==
    /\ SharedRun /\ NumConfigured = 3 /\ pc = "Done"
    /\ LogCount(FailurePrefix("doc")) = 1
    /\ LogCount(SuccessText("text")) = 1
    /\ LogCount(SuccessText("json")) = 1

\* C7: in the shared-fetch path every routine is handed the bundle the
\* central fetch returned, and the tasks (with their subtasks) and projects
\* each later writer observes are those the first writer observed.
C7_SameSnapshot ==
    SharedRun =>
        /\ \A i \in DOMAIN calls : calls[i].arg = data /\ IsSome(data)
        /\ \A i \in DOMAIN seen :
              /\ seen[i].tasks = seen[1].tasks
              /\ seen[i].projects = seen[1].projects
              /\ seen[i].tasks = Val(data).tasks
              /\ seen[i].tasks = Val(data).rawTasks
              /\ seen[i].projects = Val(data).projects

\* three writers have observed a bundle whose first task has a subtask
C7_Witness ==
    /\ SharedRun /\ Len(seen) = 3
    /\ seen[3].tasks.t = "array" /\ Len(seen[3].tasks.v) > 0
    /\ HasSubtasks(seen[3].tasks.v[1])

IsTokenError(e) == e.message = TokenMessage
TokenMissing == props.TODOIST_TOKEN = None \/ props.TODOIST_TOKEN = Some(<<>>)
GetTodoistDataRan == LogCount("DEBUG: getTodoistData() started") > 0

\* C8: with TODOIST_TOKEN unset or empty no HTTP request is ever issued,
\* getTodoistData returns no bundle, and once it has run it has failed with
\* the 'TODOIST_TOKEN is not configured' error.
C8_NoTokenNoRequest ==
    TokenMissing =>
        /\ http = <<>> /\ lastResponse = None
        /\ entry = "syncTodoist" => (data = None /\ todoistData = None /\ seen = <<>>)
        /\ \A i \in DOMAIN calls : calls[i].arg = None =>
              \A j \in DOMAIN seen : seen[j].routine # calls[i].routine
        /\ (GetTodoistDataRan /\ pc # "getTodoistData") => Reported(IsTokenError)
        /\ pc \in {"fetchTasksWithSubtasks", "fetchProjects"} => FALSE

\* the token is the empty string and the error escaped the shared fetch
C8_Witness ==
    /\ props.TODOIST_TOKEN = Some(<<>>) /\ pc = "Raised"
    /\ GetTodoistDataRan
    /\ IsSome(error) /\ Val(error).message = TokenMessage

\* the last request went to the task list or the project list and was
\* answered with a status other than 200
BadStatus(url) ==
    /\ http # <<>> /\ http[Len(http)].url = url
    /\ IsSome(lastResponse) /\ ~Val(lastResponse).throws /\ Val(lastResponse).code # 200
CarriesResponse(e) ==
    /\ e.status = Some(Val(lastResponse).code)
    /\ e.body = Some(Val(lastResponse).body)
\* a bundle has been returned by getTodoistData in this run
BundleReturned ==
    \/ entry = "syncTodoist" /\ (IsSome(data) \/ IsSome(todoistData))
    \/ \E i \in DOMAIN calls : calls[i].arg = None /\ IsSome(todoistData)

C9_WitnessProjects ==
    /\ BadStatus("projects") /\ Len(http) = 3
    /\ pc = "Done" /\ Logged("text", CarriesResponse)

\* the children requests issued by the current fetch
ChildRequests == SelectSeq(http, LAMBDA q : q.url = "children")
\* the last children request threw, was answered with a status other than
\* 200, or with a body whose first non-blank character is not '[' or '{'
ChildFetchFailed ==
    /\ http # <<>> /\ http[Len(http)].url = "children"
    /\ \/ Val(lastResponse).throws
       \/ Val(lastResponse).code # 200
       \/ Val(lastResponse).body.shape = "text"

\* C10: fetchTasksWithSubtasks issues one children request per retained
\* task, in task order and before the project-list request; a request that
\* throws, is answered with a status other than 200 or with a body that
\* does not begin with '[' or '{' leaves the task with an empty subtasks
\* list and the loop goes on; the function never raises and returns the
\* tasks in the same number and order, each carrying a subtasks list.
C10_SubtaskFetchTolerant ==
    /\ pc = "fetchTasksWithSubtasks" =>
          /\ idx \in 1..(Len(filteredTasks) + 1)
          /\ Len(http) = idx
          /\ http[1].url = "tasks"
          /\ \A i \in 1..(idx - 1) :
                /\ http[i + 1] = Request("children", filteredTasks[i].id)
                /\ IsSome(filteredTasks[i].subtasks)
          /\ \A i \in idx..Len(filteredTasks) : filteredTasks[i].subtasks = None
          /\ error = None
          /\ ChildFetchFailed => filteredTasks[idx - 1].subtasks = Some(<<>>)
    /\ (pc = "fetchProjects" \/ (http # <<>> /\ http[Len(http)].url = "projects")) =>
          /\ Len(ChildRequests) = Len(filteredTasks)
          /\ \A i \in DOMAIN filteredTasks :
                /\ ChildRequests[i].parent = filteredTasks[i].id
                /\ http[i + 1] = ChildRequests[i]
                /\ IsSome(filteredTasks[i].subtasks)
          /\ idx = Len(filteredTasks) + 1
    /\ (entry = "syncTodoist" /\ IsSome(data)) =>
          /\ Val(data).tasks = Arr(filteredTasks)
          /\ \A i \in DOMAIN filteredTasks : IsSome(filteredTasks[i].subtasks)
    /\ (http # <<>> /\ http[Len(http)].url = "children") =>
          pc \in {"fetchTasksWithSubtasks", "fetchProjects"}

\* two retained tasks: the first got its subtask, the children request of
\* the second failed and left it an empty list, and the loop is over
C10_Witness ==
    /\ pc = "fetchProjects" /\ Len(filteredTasks) = 2
    /\ HasSubtasks(filteredTasks[1])
    /\ ChildFetchFailed /\ filteredTasks[2].subtasks = Some(<<>>)

\* the first children request failed and the second task was still served
C10_WitnessContinues ==
    /\ pc = "fetchProjects" /\ Len(filteredTasks) = 2
    /\ filteredTasks[1].subtasks = Some(<<>>)
    /\ HasSubtasks(filteredTasks[2])

\* C11: in the bundle returned by getTodoistData no element of rawTasks
\* carries a subtasks list: attaching subtasks to tasks leaves rawTasks, and
\* with it the tasks of the JSON export, as the API returned them.
C11_RawTasksUnattached ==
    (entry = "syncTodoist" /\ IsSome(data)) =>
        \A i \in DOMAIN Val(data).rawTasks.v : Val(data).rawTasks.v[i].subtasks = None

\* the raw task list of the run, as the task-list response carried it
RawTasks == Val(lastResponse).body.items

\* the instant a task is due: the datetime instant, or local midnight of
\* the date; None for a task without either
EffectiveDue(task) ==
    IF ~IsSome(task.due) THEN None
    ELSE IF IsSome(Val(task.due).datetime) THEN Val(task.due).datetime
    ELSE IF IsSome(Val(task.due).date) THEN Some(Val(Val(task.due).date) * DayMs - ZoneOffset(scriptZone))
    ELSE None

InWindow(task) ==
    IsSome(EffectiveDue(task)) /\ Val(EffectiveDue(task)) <= Now + 7 * 24 * 60 * 60 * 1000

\* the positions of the raw list that are within the window, and the k-th
\* of them
KeptPositions == { i \in DOMAIN RawTasks : InWindow(RawTasks[i]) }
KeptAt(k) == CHOOSE i \in KeptPositions : Cardinality({ j \in KeptPositions : j < i }) = k - 1

\* getTodoistData has just filtered the task list it fetched
JustFiltered ==
    /\ pc = "fetchTasksWithSubtasks"
    /\ idx = 1
    /\ IsSome(lastResponse)
    /\ http[Len(http)].url = "tasks"

C12_WitnessNoDue ==
    /\ JustFiltered
    /\ Len(RawTasks) = 2
    /\ RawTasks[1].due = None
    /\ EffectiveDue(RawTasks[2]) = Some(DayMs)
    /\ filteredTasks = <<RawTasks[2]>>

\* routine r has written its whole rendering and logged its success
Wrote(r) ==
    /\ \E s \in Range(seen) : s.routine = r
    /\ LogCount(SuccessText(r)) > 0
TextOutput == files[Val(getTextFileId(props).value)]
DocOutput == docs[Val(getDocId(props).value)]

\* the group headers and list items of an output, in order
IsGroup(l) == l.text \in {"group", "heading2"}
IsItem(l, indent) == l.text \in {"task", "item"} /\ l.detail[1] = indent
Entries(out) == SelectSeq(out, LAMBDA l : IsGroup(l) \/ IsItem(l, 0) \/ IsItem(l, 1))
ItemContent(l) == l.detail[3]

GroupKeyOf(task) == IF task.project_id = None THEN "inbox" ELSE Val(task.project_id)
\* the header of the group of key k: 'Inbox' or the name the project list gives
HeaderOf(k, projects) ==
    IF k = "inbox" THEN Some(<<"I","n","b","o","x">>)
    ELSE IF \E i \in DOMAIN projects : projects[i].id = k
    THEN Some((CHOOSE pr \in Range(projects) : pr.id = k).name)
    ELSE None

Alphabet ==
    <<"a","b","c","d","e","f","g","h","i","j","k","l","m",
      "n","o","p","q","r","s","t","u","v","w","x","y","z">>
Capitals ==
    <<"A","B","C","D","E","F","G","H","I","J","K","L","M",
      "N","O","P","Q","R","S","T","U","V","W","X","Y","Z">>
AlphaIndex(c) == CHOOSE i \in 1..26 : Alphabet[i] = c \/ Capitals[i] = c
\* name a comes before name b in the alphabet
RECURSIVE NameBefore(_, _)
NameBefore(a, b) ==
    IF b = <<>> THEN FALSE
    ELSE IF a = <<>> THEN TRUE
    ELSE IF AlphaIndex(Head(a)) # AlphaIndex(Head(b)) THEN AlphaIndex(Head(a)) < AlphaIndex(Head(b))
    ELSE NameBefore(Tail(a), Tail(b))

\* the output out renders tasks grouped and ordered as C13 says
GroupedAndOrdered(out, tasks, projects) ==
    LET E == Entries(out)
        G == { g \in DOMAIN E : IsGroup(E[g]) }
        T == { i \in DOMAIN E : IsItem(E[i], 0) }
        TaskAt(i) == CHOOSE t \in Range(tasks) : t.content = ItemContent(E[i])
        GroupOf(i) == CHOOSE g \in G : g < i /\ \A h \in G : h < i => h <= g
        KeyAt(g) == GroupKeyOf(TaskAt(g + 1))
        Subs(t) == IF t.subtasks = None THEN <<>> ELSE Val(t.subtasks)
        ItemsOf(g) == SelectSeq([i \in DOMAIN E |-> <<i, E[i]>>],
                                LAMBDA x : x[1] \in T /\ GroupOf(x[1]) = g)
    IN  /\ 1 \in G
        /\ \A g \in G : (g + 1) \in T
        /\ \A i \in T : \E t \in Range(tasks) : t.content = ItemContent(E[i])
        \* one group for each key, under the header of that key
        /\ \A g, h \in G : g # h => KeyAt(g) # KeyAt(h)
        /\ { KeyAt(g) : g \in G } = { GroupKeyOf(t) : t \in Range(tasks) }
        /\ \A g \in G : E[g].detail[1] = HeaderOf(KeyAt(g), projects)
        \* the tasks of a group are the tasks of its key, in fetch order
        /\ \A g \in G :
              LET mine == SelectSeq(tasks, LAMBDA t : GroupKeyOf(t) = KeyAt(g))
                  shown == ItemsOf(g)
              IN  /\ Len(shown) = Len(mine)
                  /\ \A k \in DOMAIN mine : ItemContent(shown[k][2]) = mine[k].content
        \* Inbox first, the other groups by ascending name
        /\ \A g \in G : KeyAt(g) = "inbox" => g = 1
        /\ \A g, h \in G :
              (g < h /\ KeyAt(g) # "inbox") =>
                  NameBefore(Val(E[g].detail[1]), Val(E[h].detail[1]))
        \* the subtasks directly after their parent, one level in, in order
        /\ \A i \in T :
              LET subs == Subs(TaskAt(i))
              IN  /\ i + Len(subs) <= Len(E)
                  /\ \A k \in DOMAIN subs :
                        IsItem(E[i + k], 1) /\ ItemContent(E[i + k]) = subs[k].content
                  /\ (i + Len(subs) + 1) \in DOMAIN E => ~IsItem(E[i + Len(subs) + 1], 1)

NonEmptyList(r) == SeenBy(r).tasks.t = "array" /\ Len(SeenBy(r).tasks.v) > 0

C13_WitnessInbox ==
    /\ Wrote("text") /\ Wrote("doc") /\ NonEmptyList("text")
    /\ LET tasks == SeenBy("text").tasks.v
       IN  /\ Len(tasks) = 2
           /\ tasks[1].project_id = Some("p1") /\ tasks[2].project_id = None
    /\ Len(SelectSeq(DocOutput, IsGroup)) = 2

\* the prefix C14 gives for a priority ordinal
PrefixFor(p) ==
    CASE p = 4 -> "(P1) " [] p = 3 -> "(P2) " [] p = 2 -> "(P3) " [] p = 1 -> ""
ItemPrefix(l) == l.detail[2]
\* the tasks of a list and their subtasks
WithSubtasks(tasks) ==
    Range(tasks) \cup UNION { Range(Val(t.subtasks)) : t \in { u \in Range(tasks) : u.subtasks # None } }
PrefixesRight(out, tasks) ==
    \A i \in DOMAIN out :
        (IsItem(out[i], 0) \/ IsItem(out[i], 1)) =>
            /\ \E t \in WithSubtasks(tasks) : t.content = ItemContent(out[i])
            /\ \A t \in WithSubtasks(tasks) :
                  t.content = ItemContent(out[i]) => ItemPrefix(out[i]) = PrefixFor(t.priority)

JsonOutput == files[Val(getJsonFileId(props).value)][1].detail[1]
\* the number of tasks of the exported list with priority p
WithPriority(tasks, p) == Cardinality({ i \in DOMAIN tasks : tasks[i].priority = p })
ExportedList(r) == IF SeenBy(r).tasks.t = "array" THEN SeenBy(r).tasks.v ELSE <<>>

\* C14: priority 4, 3, 2, 1 is rendered as '(P1) ', '(P2) ', '(P3) ', '' for
\* tasks and subtasks in the text file and in the document, and the JSON
\* histogram counts priority 4, 3, 2, 1 in p1, p2, p3, p4.
C14_PriorityMapping ==
    /\ (Wrote("text") /\ NonEmptyList("text")) => PrefixesRight(TextOutput, SeenBy("text").tasks.v)
    /\ (Wrote("doc") /\ NonEmptyList("doc")) => PrefixesRight(DocOutput, SeenBy("doc").tasks.v)
    /\ Wrote("json") =>
          LET h == JsonOutput.statistics.tasks.byPriority
              tasks == ExportedList("json")
          IN  /\ h.p1 = WithPriority(tasks, 4)
              /\ h.p2 = WithPriority(tasks, 3)
              /\ h.p3 = WithPriority(tasks, 2)
              /\ h.p4 = WithPriority(tasks, 1)

\* all three sinks written from a task of priority 4 with a subtask of
\* priority 2 and a task of priority 1
C14_Witness ==
    /\ Wrote("text") /\ Wrote("doc") /\ Wrote("json") /\ NonEmptyList("text")
    /\ LET tasks == SeenBy("text").tasks.v
       IN  /\ Len(tasks) = 2
           /\ tasks[1].priority = 4 /\ tasks[2].priority = 1
           /\ tasks[1].subtasks # None /\ tasks[1].subtasks # Some(<<>>)
           /\ Val(tasks[1].subtasks)[1].priority = 2
    /\ JsonOutput.statistics.tasks.byPriority = [p1 |-> 1, p2 |-> 0, p3 |-> 0, p4 |-> 1]
    /\ \E i \in DOMAIN DocOutput : IsItem(DocOutput[i], 1) /\ ItemPrefix(DocOutput[i]) = "(P3) "
    /\ \E i \in DOMAIN TextOutput : IsItem(TextOutput[i], 0) /\ ItemPrefix(TextOutput[i]) = ""

\* the due string of a list item of the text file or of the document
ItemDue(l) == IF l.text = "task" THEN l.detail[4] ELSE l.detail[5]
DateOnly(task) ==
    task.due # None /\ Val(task.due).datetime = None /\ Val(task.due).date # None
\* every item of a task with a date-only due value shows that calendar day
DateOnlyDayKept(out, tasks) ==
    \A i \in DOMAIN out :
        (IsItem(out[i], 0) \/ IsItem(out[i], 1)) =>
            \A t \in WithSubtasks(tasks) :
                (t.content = ItemContent(out[i]) /\ DateOnly(t)) =>
                    /\ ItemDue(out[i]) # None
                    /\ Val(ItemDue(out[i])).day = Val(Val(t.due).date)

\* C15: a date-only due value Y-M-D is rendered as that same calendar day,
\* whatever TIMEZONE is configured and whatever zone the date object is
\* constructed in.
C15_DateOnlySameDay ==
    /\ (Wrote("text") /\ NonEmptyList("text")) => DateOnlyDayKept(TextOutput, SeenBy("text").tasks.v)
    /\ (Wrote("doc") /\ NonEmptyList("doc")) => DateOnlyDayKept(DocOutput, SeenBy("doc").tasks.v)

\* the list items of the document and the task lines of the text file
DocItems == SelectSeq(DocOutput, LAMBDA l : l.text = "item")
TextTaskLines == SelectSeq(TextOutput, LAMBDA l : l.text = "task")
\* the blockquote lines directly under the k-th task line of the text file
QuotesUnder(k) ==
    LET at == CHOOSE i \in DOMAIN TextOutput :
                  /\ TextOutput[i].text = "task"
                  /\ Cardinality({ j \in 1..i : TextOutput[j].text = "task" }) = k
    IN  IF at < Len(TextOutput) /\ TextOutput[at + 1].text = "quote"
        THEN <<TextOutput[at + 1].detail[2]>> ELSE <<>>
\* the description of the task an item was written for
DescriptionOf(content, tasks) ==
    (CHOOSE t \in WithSubtasks(tasks) : t.content = content).description

\* the document and the text file were written from the same bundle
BothWritten ==
    /\ Wrote("text") /\ Wrote("doc") /\ NonEmptyList("text")
    /\ SeenBy("text").tasks = SeenBy("doc").tasks
    /\ SeenBy("text").projects = SeenBy("doc").projects

\* C16 as stated: the description is no part of the text of a document item.
C16_DescriptionOnlyInText ==
    (Wrote("doc") /\ NonEmptyList("doc")) =>
        \A k \in DOMAIN DocItems : DocItems[k].detail[4] = ""

\* C16 amended: the document item is assembled from the parts of the
\* plain-text line without marker and metadata suffix (priority prefix,
\* content, due suffix, label suffix, in that order) with the description,
\* when there is one, appended after the content behind a dash; the text
\* file carries the description as a blockquote line under the task line.
C16_DocItemParts ==
    /\ (Wrote("doc") /\ NonEmptyList("doc")) =>
          \A k \in DOMAIN DocItems :
              LET d == DescriptionOf(DocItems[k].detail[3], SeenBy("doc").tasks.v)
              IN  DocItems[k].detail[4] = IF d = "" THEN "" ELSE " -- " \o d
    /\ BothWritten =>
          /\ Len(DocItems) = Len(TextTaskLines)
          /\ \A k \in DOMAIN DocItems :
                LET item == DocItems[k].detail
                    line == TextTaskLines[k].detail
                    d == DescriptionOf(item[3], SeenBy("doc").tasks.v)
                IN  /\ <<item[1], item[2], item[3]>> = <<line[1], line[2], line[3]>>
                    /\ item[5] = line[4]
                    /\ item[6] = line[5]
                    /\ QuotesUnder(k) = IF d = "" THEN <<>> ELSE <<d>>

\* the document and the text file written from a list with a task that has
\* a description, a due time and no label
C16_Witness ==
    /\ BothWritten
    /\ \E k \in DOMAIN DocItems :
          /\ DocItems[k].detail[4] = " -- note"
          /\ DocItems[k].detail[5] # None
          /\ QuotesUnder(k) = <<"note">>

\* characters that are no Markdown markup
PlainChar(c) == c \notin {"*", "[", "]", "(", ")"}
\* fullText is plain text around one **inner** with a plain, non-empty
\* inner text from position i + 2 to j - 1
OneBoldMatch(i, j) ==
    /\ i >= 1 /\ j >= i + 3 /\ j + 1 <= Len(fullText)
    /\ \A k \in DOMAIN fullText : PlainChar(fullText[k]) <=> k \notin {i, i + 1, j, j + 1}

\* C17: the Markdown passes remove exactly the markup and keep the inner
\* text: a match of **text** leaves the whole inner text, bold, without its
\* two pairs of asterisks, and **[a](http://x)** leaves the text 'a', bold
\* and linked to http://x, without any asterisk, bracket or parenthesis.
C17_MarkupRemovedTextKept ==
    pc = "formatted" =>
        /\ \A i, j \in DOMAIN fullText :
              OneBoldMatch(i, j) =>
                  /\ getText(textElement) =
                        SubSeq(fullText, 1, i - 1) \o SubSeq(fullText, i + 2, j - 1)
                          \o SubSeq(fullText, j + 2, Len(fullText))
                  /\ \A k \in i..(j - 3) : textElement[k].bold
        /\ fullText = BoldLink =>
              textElement = <<[c |-> "a", bold |-> TRUE, italic |-> FALSE,
                               link |-> Some(<<"h","t","t","p",":","/","/","x">>)]>>

\* what the passes leave of **[a](http://x)**: a single asterisk
C17_Residue ==
    (pc = "formatted" /\ fullText = BoldLink) => getText(textElement) = <<"*">>

\* the italic pass alone keeps its promise: *inner* leaves the inner text
C17_ItalicKept ==
    (pc = "formatted" /\ Len(fullText) >= 3
       /\ fullText[1] = "*" /\ fullText[Len(fullText)] = "*"
       /\ \A k \in 2..(Len(fullText) - 1) : PlainChar(fullText[k])) =>
        /\ getText(textElement) = SubSeq(fullText, 2, Len(fullText) - 1)
        /\ \A k \in DOMAIN textElement : textElement[k].italic

\* the number of positions of a list whose task satisfies a condition
HowMany(tasks, S) == Cardinality({ i \in DOMAIN tasks : tasks[i] \in S })

\* C18: the statistics of the JSON export are, for the exported list: total
\* the number of tasks, withDueDates those with a due value, withLabels
\* those with at least one label, withComments those with comment_count > 0,
\* projects.total the number of projects (0 for a list that is null), and
\* data.tasks and data.projects are the values the writer was given.
C18_JsonStatistics ==
    Wrote("json") =>
        LET out == JsonOutput
            given == SeenBy("json")
            tasks == ExportedList("json")
            all == Range(tasks)
        IN  /\ out.statistics.tasks.total = Len(tasks)
            /\ out.statistics.tasks.withDueDates = HowMany(tasks, { t \in all : t.due # None })
            /\ out.statistics.tasks.withLabels = HowMany(tasks, { t \in all : Len(t.labels) >= 1 })
            /\ out.statistics.tasks.withComments = HowMany(tasks, { t \in all : t.comment_count > 0 })
            /\ out.statistics.projects.total =
                  (IF given.projects.t = "array" THEN Len(given.projects.v) ELSE 0)
            /\ given.tasks.t = "null" =>
                  /\ out.statistics.tasks.total = 0
                  /\ out.statistics.tasks.withDueDates = 0
                  /\ out.statistics.tasks.withLabels = 0
                  /\ out.statistics.tasks.withComments = 0
            /\ out.data.tasks = given.tasks
            /\ out.data.projects = given.projects

\* an export of two tasks, one with a label and one with comments, and of
\* two projects
C18_Witness ==
    /\ Wrote("json")
    /\ JsonOutput.statistics.tasks.total = 2
    /\ JsonOutput.statistics.tasks.withDueDates = 2
    /\ JsonOutput.statistics.tasks.withLabels = 1
    /\ JsonOutput.statistics.tasks.withComments = 1
    /\ JsonOutput.statistics.projects.total = 2

\* an export of a task list that is null
C18_WitnessNull ==
    /\ Wrote("json")
    /\ SeenBy("json").tasks.t = "null"
    /\ JsonOutput.data.tasks = Null

\* an export in which one of two tasks has no due value
C18_WitnessNoDue ==
    /\ Wrote("json")
    /\ JsonOutput.statistics.tasks.total = 2
    /\ JsonOutput.statistics.tasks.withDueDates = 1

EmptyList(r) == SeenBy(r).tasks.t = "array" /\ Len(SeenBy(r).tasks.v) = 0
\* the output is title, metadata line and blank line, then 'No tasks due
\* today.', and nothing else
OnlyNoTasks(out, titles, metas) ==
    /\ Len(out) = 4
    /\ out[1].text \in titles
    /\ out[2].text \in metas
    /\ out[3].text = ""
    /\ out[4] = Line("No tasks due today.", <<>>)
    /\ \A i \in DOMAIN out : ~IsGroup(out[i]) /\ out[i].text \notin {"task", "item"}

\* C19: for an empty task list the text file and the document hold the
\* header (title and metadata line) and then the single line 'No tasks due
\* today.', without group header or list item, whatever the projects are.
C19_EmptyListMessage ==
    /\ (Wrote("text") /\ EmptyList("text")) => OnlyNoTasks(TextOutput, {"title"}, {"meta"})
    /\ (Wrote("doc") /\ EmptyList("doc")) => OnlyNoTasks(DocOutput, {"heading1"}, {"italic"})

\* both sinks written from an empty task list and two projects
C19_Witness ==
    /\ Wrote("text") /\ Wrote("doc")
    /\ EmptyList("text") /\ EmptyList("doc")
    /\ SeenBy("text").projects.t = "array" /\ Len(SeenBy("text").projects.v) = 2
    /\ TextOutput[4].text = "No tasks due today."
    /\ DocOutput[4].text = "No tasks due today."

\* the sink of routine r, and what it held before the run
SinkOf(r) ==
    CASE r = "doc" -> DocOutput [] r = "text" -> TextOutput
      [] r = "json" -> files[Val(getJsonFileId(props).value)]
Earlier(r) == IF r = "doc" THEN OldDoc ELSE OldFile

\* C20: after a successful write the sink holds exactly the representation
\* rendered in this run from the bundle the writer was given, and no line of
\* what it held before.
C20_FullOverwrite ==
    \A r \in Routines :
        Wrote(r) =>
            /\ SinkHoldsRendering(r)
            /\ \A i \in DOMAIN SinkOf(r) : SinkOf(r)[i] \notin Range(Earlier(r))

\* the three sinks, each holding earlier content, overwritten in one run
C20_Witness ==
    /\ \A r \in Routines : Wrote(r)
    /\ pc = "Done"
    /\ NonEmptyList("text")
    /\ \A r \in Routines : Len(SinkOf(r)) > 0

\* a rendering without the parts that state the instant of generation: the
\* date of the title, the export date of the metadata line, exportDate
Undated(l) ==
    IF l.text \in {"title", "heading1"} THEN Line(l.text, <<l.detail[1]>>)
    ELSE IF l.text \in {"meta", "italic"} THEN Line(l.text, Tail(l.detail))
    ELSE l
UndatedLines(q) == [i \in DOMAIN q |-> Undated(q[i])]
WithoutInstant(r) ==
    [doc |-> UndatedLines(r.doc),
     text |-> IF r.text.ok THEN Ok(UndatedLines(Val(r.text.value))) ELSE r.text,
     json |-> [r.json EXCEPT !.exportMetadata.exportDate = None]]
SameOutput(a, b) == a.doc = b.doc /\ a.text = b.text /\ a.json = b.json

C21_WitnessSameSecond ==
    /\ Len(renderings) = 2
    /\ renderings[1].at # renderings[2].at
    /\ renderings[1].doc = renderings[2].doc
    /\ renderings[1].text.ok /\ renderings[1].text = renderings[2].text

\* s with the letters of the /i patterns in lower case
Lowered(s) == [i \in DOMAIN s |-> ToLower(s[i])]
\* the positions right behind an occurrence of lit in s
Behind(s, lit) ==
    { p + Len(lit) : p \in { q \in 1..Len(s) : q + Len(lit) - 1 <= Len(s)
                                               /\ SubSeq(s, q, q + Len(lit) - 1) = lit } }
Contains(s, lit) == Behind(s, lit) # {}
IsUrl(t) ==
    \/ Len(t) >= 7 /\ SubSeq(Lowered(t), 1, 7) = <<"h","t","t","p",":","/","/">>
    \/ Len(t) >= 8 /\ SubSeq(Lowered(t), 1, 8) = <<"h","t","t","p","s",":","/","/">>
IsFolderLink(t) == Contains(Lowered(t), <<"/","f","o","l","d","e","r","s","/">>)
\* the identifiers of at least ten identifier characters that follow lit in t
IdsBehind(t, lit) ==
    { SubSeq(t, ab[1], ab[2]) :
        ab \in { x \in Behind(t, lit) \X (1..Len(t)) :
                   /\ x[2] - x[1] + 1 >= 10
                   /\ \A k \in x[1]..x[2] : IdChar(t[k]) } }
\* the identifiers the k-th pattern finds in t
PatternIds(t, k) ==
    CASE k = 1 -> IdsBehind(t, <<"/","d","/">>) \cup IdsBehind(t, <<"/","u","/">>)
      [] k = 2 -> IdsBehind(t, <<"/","f","i","l","e","/","d","/">>)
      [] k = 3 -> IdsBehind(t, <<"?","i","d","=">>) \cup IdsBehind(t, <<"&","i","d","=">>)
\* the outcome the resolution rules give for the stored value raw and the
\* result res; verbatim: the value is examined and returned as it is stored
Resolves(raw, res, verbatim) ==
    IF raw = None \/ raw = Some(<<>>) THEN ~res.ok
    ELSE LET t == IF verbatim THEN Val(raw) ELSE Trim(Val(raw))
             found == { k \in 1..3 : PatternIds(t, k) # {} }
         IN  IF t = <<>> THEN ~res.ok
             ELSE IF ~IsUrl(Trim(Val(raw))) THEN res.ok /\ Val(res.value) = t
             ELSE IF IsFolderLink(t) THEN ~res.ok
             ELSE IF found = {} THEN ~res.ok
             ELSE /\ res.ok
                  /\ Val(res.value) \in PatternIds(t, CHOOSE k \in found : \A m \in found : k <= m)

\* C22 as stated: an unset value fails; a stored value that is not an
\* http(s) URL is returned as the ID, as it is stored; a URL with a
\* /folders/ segment fails; otherwise the identifier comes from the first
\* pattern that matches, and a URL matching no pattern fails.
C22_NonUrlReturnedAsStored ==
    \A i \in DOMAIN resolved :
      Resolves(props[resolved[i].key], resolved[i].result, TRUE)

\* C22, amended: an unset or empty value fails and so does a value of white
\* space only; otherwise the value is examined without its surrounding
\* white space: when it is not an http(s) URL it is returned (trimmed) as
\* the ID, a URL with a /folders/ segment fails, otherwise the identifier
\* comes from the first pattern that matches, in the order /d/ or /u/
\* segment, /file/d/ segment, id= parameter, and a URL matching no pattern
\* fails.  The store, the sinks and the request log are as they were.
C22_TargetIdResolution ==
    /\ \A i \in DOMAIN resolved :
         Resolves(props[resolved[i].key], resolved[i].result, FALSE)
    /\ resolved # <<>> =>
         /\ http = <<>> /\ sinkOps = <<>> /\ log = <<>>
         /\ \A d \in DocIds : docs[d] = OldDoc
         /\ \A f \in FileIds : files[f] = OldFile

\* the three getters ran: a link with an id parameter in front of a /d/
\* segment gave the identifier of the segment, a folder link with an id
\* parameter failed, and an identifier between blanks came back trimmed
C22_Witness ==
    /\ Len(resolved) = 3
    /\ props.DOC_ID = Some(Https \o <<"/","o","p","e","n","?","i","d","=">> \o JsonIdent
                                 \o <<"&","r","=","/","d","/">> \o DocIdent)
    /\ resolved[1].result.ok /\ resolved[1].result.value = Some(DocIdent)
    /\ props.TEXT_FILE_ID # None /\ IsFolderLink(Val(props.TEXT_FILE_ID))
    /\ PatternIds(Val(props.TEXT_FILE_ID), 3) # {}
    /\ ~resolved[2].result.ok
    /\ props.JSON_FILE_ID = Some(<<" ">> \o TextFileId \o <<" ">>)
    /\ resolved[3].result.value = Some(TextFileId)

\* the bundle getTodoistData returned in this run, if it has returned one
ReturnedBundle ==
    IF entry = "syncTodoist" /\ IsSome(data) THEN data
    ELSE IF IsSome(todoistData) /\ \E i \in DOMAIN calls : calls[i].arg = None THEN todoistData
    ELSE None
\* the subtasks attached to the tasks of bundle b
AttachedTo(b) ==
    UNION { Range(Val(b.tasks.v[i].subtasks)) : i \in DOMAIN b.tasks.v }
SubtasksOfParent(b) ==
    \A i \in DOMAIN b.tasks.v :
      \A st \in Range(Val(b.tasks.v[i].subtasks)) : st.parent_id = Some(b.tasks.v[i].id)
NoRequestForChild(b) ==
    \A k \in DOMAIN http :
      http[k].url = "children" => \A st \in AttachedTo(b) : st.id # http[k].parent
NoNestedList(b) == \A st \in AttachedTo(b) : st.subtasks = None

\* C23: in every bundle getTodoistData returns, whatever the children
\* endpoint answered, the subtasks of a task all name that task as their
\* parent, no children request was issued for a task that was obtained as
\* a child, and no attached subtask carries a subtasks list of its own.
C23_SubtasksOfParentOneLevel ==
    IsSome(ReturnedBundle) =>
        /\ SubtasksOfParent(Val(ReturnedBundle))
        /\ NoRequestForChild(Val(ReturnedBundle))
        /\ NoNestedList(Val(ReturnedBundle))

\* the pass that is about to run, and the matches it will process
PassAbout ==
    CASE pc = "linkPass" -> "link" [] pc = "boldPass" -> "bold" [] OTHER -> "italic"
QueuedMatches == MatchAll(getText(textElement), 1, PassAbout)
\* the text of the element when the j-th iteration of the pass starts
TextAtIteration(j) == getText(FromLast(textElement, QueuedMatches, j - 1, PassAbout))

\* C24: in each of the three passes the matches are processed from the
\* highest offset to the lowest, and when a match is processed the text up
\* to the end of that match is as it was when the matches were found: the
\* match is still exactly its markup at its recorded offset, and so is
\* every match still queued.
C24_QueuedOffsetsValid ==
    pc \in {"linkPass", "boldPass", "italicPass"} =>
        LET text == getText(textElement)
            n == Len(QueuedMatches)
        IN  \A j \in 1..n :
              LET match == QueuedMatches[IterationIndex(n, j)]
                  end == match.index + match.length
              IN  /\ \A k \in 1..(j - 1) :
                        QueuedMatches[IterationIndex(n, k)].index > match.index
                  /\ MatchAt(PassAbout, TextAtIteration(j), match.index + 1) = Some(match)
                  /\ SubSeq(TextAtIteration(j), 1, end) = SubSeq(text, 1, end)

\* a pass with two matches has run: the bold pass over '**a****bb**'
C24_Witness ==
    /\ pc = "italicPass" /\ fullText = TwoBolds
    /\ Len(MatchAll(fullText, 1, "bold")) = 2
    /\ Len(textElement) < Len(fullText)

\* two links and, behind them, two italic matches are queued
C24_WitnessQueued ==
    /\ pc = "italicPass" /\ Len(QueuedMatches) = 2
    /\ Len(MatchAll(fullText, 1, "link")) = 2

\* the identifiers of the tasks of a list, each followed by those of its
\* subtasks
IdsOf(tasks) ==
    FlatMap(tasks, LAMBDA t : <<t.id>> \o [k \in DOMAIN Val(t.subtasks) |-> Val(t.subtasks)[k].id])
NoRepeats(q) == \A i, j \in DOMAIN q : i # j => q[i] # q[j]
\* the contents of the task lines of the text file and of the list items of
\* the document (the content of a task of the model is its identifier)
TextContents == [k \in DOMAIN TextTaskLines |-> ItemContent(TextTaskLines[k])]
DocContents ==
    LET items == SelectSeq(DocItems, LAMBDA l : Len(l.detail) >= 3)
    IN  [k \in DOMAIN items |-> ItemContent(items[k])]

\* C25: in the bundle getTodoistData returns and in every output rendered
\* from it no task appears more than once, as a top-level item or as a
\* subtask.
C25_NoTaskTwice ==
    IsSome(ReturnedBundle) =>
        /\ NoRepeats(IdsOf(Val(ReturnedBundle).tasks.v))
        /\ Wrote("text") => NoRepeats(TextContents)
        /\ Wrote("doc") => NoRepeats(DocContents)

\* the sync routine r has logged its failure line in this run
FailureLogged(r) == LogCount(FailurePrefix(r)) > 0

\* C26: when syncTodoistToDoc has logged its failure line, every document
\* holds what it held before the run: none is left cleared or partly
\* written.
C26_FailedDocUnchanged ==
    FailureLogged("doc") => \A d \in DocIds : docs[d] = OldDoc

FileWriters == {"text", "json"}
\* the identifier the writer of routine r resolves
FileIdOf(r) == IF r = "text" THEN getTextFileId(props) ELSE getJsonFileId(props)
\* the file.setContent calls made on file f
SetContentCalls(f) ==
    Cardinality({ k \in DOMAIN sinkOps : sinkOps[k].op = "setContent" /\ sinkOps[k].id = Some(f) })
\* the writer of r was reached and its rendering raised
RenderingFailed(r) ==
    /\ \E s \in Range(seen) : s.routine = r
    /\ IF r = "text"
       THEN ~buildPlainTextForTasks(SeenBy(r).tasks, SeenBy(r).projects, props).ok
       ELSE SeenBy(r).tasks.t = "object"

\* C27: the text writer and the JSON writer change their file by a single
\* setContent call made when the rendering is complete: a file holds its
\* old content or the complete rendering of the bundle its writer was
\* given, it is unchanged whenever the routine logged a failure (identifier
\* resolution, file lookup, rendering), and setContent is called at most
\* once per file in a run.
C27_SingleSetContent ==
    /\ \A f \in FileIds :
         /\ SetContentCalls(f) <= 1
         /\ files[f] # OldFile =>
               \E r \in FileWriters :
                  /\ FileIdOf(r).ok /\ Val(FileIdOf(r).value) = f
                  /\ SetContentCalls(f) = 1
                  /\ SinkHoldsRendering(r)
                  /\ ~FailureLogged(r)
    /\ \A r \in FileWriters :
         (FailureLogged(r) \/ RenderingFailed(r)) =>
             /\ \A f \in FileIds : Some(f) = FileIdOf(r).value => files[f] = OldFile /\ SetContentCalls(f) = 0
             /\ ~FileIdOf(r).ok => \A k \in DOMAIN sinkOps : sinkOps[k].sink # "file"

\* the rendering of the text failed after the file was looked up, in a run
\* that wrote the JSON file
C27_Witness ==
    /\ pc = "Done" /\ entry = "syncTodoist"
    /\ RenderingFailed("text") /\ FailureLogged("text")
    /\ \E k \in DOMAIN sinkOps : sinkOps[k] = SinkOp("file", "open", FileIdOf("text").value)
    /\ files[TextFileId] = OldFile
    /\ Wrote("json") /\ files[JsonFileId] # OldFile

\* the identifier of the text file could not be resolved
C27_WitnessResolution ==
    /\ pc = "Done" /\ ~FileIdOf("text").ok /\ FailureLogged("text")
    /\ \E s \in Range(seen) : s.routine = "text"

\* the file of the identifier does not exist
C27_WitnessLookup ==
    /\ pc = "Done" /\ FileIdOf("text").value = Some(MissingFileId) /\ FailureLogged("text")
    /\ \E s \in Range(seen) : s.routine = "text"

\* the writer of routine r was given a task array and a project array
GivenArrays(r) ==
    \E s \in Range(seen) : s.routine = r /\ s.tasks.t = "array" /\ s.projects.t = "array"
\* the group header l is 'Inbox' or the name of one of the projects
KnownHeader(l, projects) ==
    \/ l.detail[1] = Some(<<"I","n","b","o","x">>)
    \/ \E i \in DOMAIN projects : l.detail[1] = Some(projects[i].name)
HeadersKnown(out, projects) ==
    \A i \in DOMAIN out : IsGroup(out[i]) => KnownHeader(out[i], projects)
TextCompletes(tasks, projects) ==
    LET text == buildPlainTextForTasks(tasks, projects, props)
    IN  text.ok /\ HeadersKnown(Val(text.value), projects.v)
DocCompletes(tasks, projects) ==
    LET steps == DocSteps(tasks, projects, props)
    IN  FirstRaise(steps) = 0 /\ HeadersKnown(Paragraphs(steps, Len(steps)), projects.v)

\* C28: for every bundle of a task array and a project array, also one in
\* which a task names a project that is not in the project list, the
\* plain-text and the document rendering complete without raising and
\* every group header is 'Inbox' or the name of a project of the list.
C28_UnknownProjectRendered ==
    /\ GivenArrays("text") => TextCompletes(SeenBy("text").tasks, SeenBy("text").projects)
    /\ GivenArrays("doc") => DocCompletes(SeenBy("doc").tasks, SeenBy("doc").projects)

\* syncTodoist has logged its last line
CompletedLogged == LogCount("Todoist sync completed successfully") > 0

\* C29: syncTodoist logs 'Todoist sync completed successfully' only in runs
\* in which every configured target logged its success line and none
\* logged a failure line.
C29_CompletedOnlyIfAllSynced ==
    CompletedLogged =>
        \A r \in Routines :
          Configured(r) => LogCount(SuccessText(r)) > 0 /\ ~FailureLogged(r)

\* the tasks written to data.tasks of the JSON file
JsonTasks == IF JsonOutput.data.tasks.t = "array" THEN JsonOutput.data.tasks.v ELSE <<>>

=============================================================================
